---- MODULE Spec2Model ----
(***************************************************************************)
(* A model of the orchestration code of ica-tools:                         *)
(*   - ICABatchProcessor.process_batch / process_sample / _generate_params *)
(*     (src/src/ica_batch_processor.py),                                   *)
(*   - the upload -> pipeline -> download workflow of                      *)
(*     src/src/ica_cli_workflow.py, with the pipes of run_download,        *)
(*   - start_pipeline of src/src/ica_cli_pipeline.py,                      *)
(*   - wait_for_analysis and main of src/src/ica_cli_download.py,          *)
(*   - the monitors of src/src/ica_monitor.py,                             *)
(*   - cleanup_old_data and archive_old_data of                            *)
(*     src/src/ica_project_manager.py.                                     *)
(* Each component has its own specification (SpecBatch, SpecWorkflow,      *)
(* SpecPoller, SpecDownload, SpecMonitor, SpecParams, SpecPipes,           *)
(* SpecManager) over the module's variables; the variables of the other    *)
(* components stay at their initial values.  SpecItem composes one         *)
(* process_sample invocation with the scripts it runs as subprocesses.     *)
(***************************************************************************)
EXTENDS Integers, Sequences, FiniteSets, TLC

VARIABLES
    \* ---- process_batch ----
    samples,          \* the list read from the sample sheet
    params_files,     \* per params file: the items that wrote it, in order
    max_concurrent,   \* self.max_concurrent
    bpc,              \* position of the thread running process_batch
    nsub,             \* number of executor.submit calls made so far
    ipc,              \* per item: position of its process_sample invocation
    future_to_sample, \* per item: the state of its future
    upload_rc,        \* per item: return code of the upload subprocess
    pipeline_rc,      \* per item: return code of the workflow subprocess
    invocations,      \* per item: number of process_sample invocations begun
    finish_order,     \* item indices in the order their futures completed
    results,          \* the list `results` of process_batch
    summary,          \* the dict `summary` of process_batch
    results_json,     \* content of batch_results/results.json
    summary_json,     \* content of batch_results/summary.json
    \* ---- ica_cli_workflow.main ----
    wf_args,          \* args: input_folder and --folder-name
    wf_pc,            \* position of main
    folder_name,      \* the local folder_name of main
    analysis_id,      \* the local analysis_id of main
    wf_log,           \* calls and returns of the three stages, in order
    wf_out,           \* the messages main itself prints
    wf_exit,          \* the exit code of the process
    \* ---- ica_cli_download.wait_for_analysis ----
    polling_interval, \* the polling_interval argument
    poll_pc,          \* position of wait_for_analysis
    poll_log,         \* status queries and sleeps, in order
    poll_ret,         \* the value wait_for_analysis returned
    poll_resp,        \* per status query: how the remote call itself went
    \* ---- ica_cli_download.main ----
    dl_no_wait,       \* args.no_wait
    dl_pc,            \* position of main
    dl_folder_id,     \* the local folder_id of main
    dl_calls,         \* the folder ids download_folder was called with
    dl_out,           \* the messages main itself prints
    dl_exit,          \* the exit code of the process
    \* ---- ica_monitor ----
    mon_action,       \* which monitor runs: "pipeline", "storage" or "costs"
    check_interval,   \* the check_interval argument, in seconds
    slack_webhook,    \* whether config.slack_webhook is set
    mon_threshold,    \* threshold_percent or budget_threshold
    run_status,       \* the status the watched run has on the platform
    mon_pc,           \* position of the monitor
    current_status,   \* the local current_status of monitor_pipeline
    used_gb,          \* the local used_gb of monitor_storage
    total_gb,         \* the local total_gb of monitor_storage
    mon_note,         \* the notification being sent and what follows it
    mon_log,          \* the polls, notifications and sleeps so far
    mon_ret,          \* the value monitor_pipeline returned
    mon_exc,          \* the exception that left the monitor
    mon_exit,         \* the exit code of the monitor command
    \* ---- ICABatchProcessor._generate_params ----
    gp_sample,        \* the sample argument
    gp_pc,            \* position of the call
    gp_out,           \* the dictionary it returned
    gp_exc,           \* the exception it raised
    \* ---- ica_cli_pipeline.start_pipeline ----
    start_response,    \* what `ica pipelines start` answered
    \* ---- ICAMonitor.monitor_storage ----
    storage_reply,     \* the Used: and Total: readings of the latest response
    \* ---- ica_cli_workflow.run_download and its child ----
    out_todo,         \* blocks the child has still to write to stdout
    err_todo,         \* blocks the child has still to write to stderr
    out_pipe,         \* blocks waiting in the stdout pipe
    err_pipe,         \* blocks waiting in the stderr pipe
    child_pc,         \* position of the download script
    child_rc,         \* its return code
    parent_pc,        \* position of run_download
    rd_ret,            \* the value run_download returned
    \* ---- ICAProjectManager ----
    pm_action,        \* "cleanup" or "archive"
    pm_days,          \* the days argument
    pm_dry_run,       \* the dry_run argument of the running cleanup_old_data
    remote,           \* per data item: days since its creation date, if present
    pm_pc,            \* position of the running method
    old_data,         \* the list archive_old_data iterates over
    arch_i,           \* its position in that list
    cl_data,          \* the list cleanup_old_data iterates over
    cl_i,             \* its position in that list
    archive_dir,      \* the items downloaded into the archive directory
    pm_log            \* the download and delete commands run, in order

batchVars == <<samples, params_files, max_concurrent, bpc, nsub, ipc, future_to_sample,
               upload_rc, pipeline_rc, invocations, finish_order, results,
               summary, results_json, summary_json>>

wfVars == <<wf_args, wf_pc, folder_name, analysis_id, wf_log, wf_out, wf_exit>>

pollVars == <<polling_interval, poll_pc, poll_log, poll_ret, poll_resp>>

dlVars == <<dl_no_wait, dl_pc, dl_folder_id, dl_calls, dl_out, dl_exit>>

monVars == <<mon_action, check_interval, slack_webhook, mon_threshold, run_status,
             mon_pc, current_status, used_gb, total_gb, mon_note, mon_log,
             mon_ret, mon_exc, mon_exit>>

paramVars == <<gp_sample, gp_pc, gp_out, gp_exc>>

itemVars == <<start_response>>

replyVars == <<storage_reply>>

pipeVars == <<out_todo, err_todo, out_pipe, err_pipe, child_pc, child_rc, parent_pc, rd_ret>>

pmVars == <<pm_action, pm_days, pm_dry_run, remote, pm_pc, old_data, arch_i, cl_data, cl_i,
            archive_dir, pm_log>>

vars == <<batchVars, wfVars, pollVars, dlVars, monVars, paramVars, itemVars, replyVars, pipeVars, pmVars>>

\* ---------------------------------------------------------------- bounds
\* Number of records of the sample sheet.
MaxItems == 2
\* Largest --max-concurrent.
MaxConcurrent == 2
\* Length of the input_folder argument.
MaxPathLen == 3
\* Lines of the pipeline script's stdout.
MaxLines == 2
\* Characters after "Analysis ID:" on a line.
MaxIdLen == 2
\* Status queries of one wait_for_analysis call.
MaxPolls == 3
\* Largest amount (gigabytes, cost) a monitored response reports.
MaxAmount == 2
\* Blocks the download script writes to each of stdout and stderr.
MaxOutput == 3
\* Blocks a pipe holds before a write to it blocks.
MaxPipe == 2
\* Data items of the project.
MaxData == 2
\* Largest age of a data item and largest --days, in days.
MaxAge == 2
\* Events of a monitor run that its history keeps.
MaxMonLog == 6
\* Entries of a sample's custom_params mapping.
MaxCustomParams == 1

\* ------------------------------------------------------------ model values
None == "None"            \* Python's None / an absent value
\* A value that may be absent (a variable not yet assigned, a file not yet
\* written, a subprocess not yet run) is a sequence of length 0 or 1.
Absent == <<>>
Some(x) == <<x>>
NotRun == Absent          \* a subprocess that was never started
NotWritten == Absent      \* a file that was never written

\* ------------------------------------------------------------- sample sheet
\* The fields of a work item record that process_sample reads with sample[...]
Fields == {"sample_id", "data_folder", "pipeline", "reference"}

SampleIds == {"s1", "s2"}

\* A record may lack one of the fields (a YAML record without the key, or a
\* CSV sheet without the column).
KeySets == {Fields} \cup {Fields \ {f} : f \in Fields}

SampleRecords ==
    {[keys |-> K, sample_id |-> id] : K \in {S \in KeySets : "sample_id" \in S}, id \in SampleIds}
    \cup {[keys |-> Fields \ {"sample_id"}, sample_id |-> None]}

SampleSheets == UNION {[1..n -> SampleRecords] : n \in 0..MaxItems}

Items == 1..Len(samples)

\* -------------------------------------------------------- process_sample
CompletedResult(sample) ==
    [kind |-> "value", sample_id |-> sample.sample_id, status |-> "completed", error |-> None]

\* A handler that labels the failure with a status the summary does not count.
FailedResultMislabelled(sample, e) ==
    [kind |-> "value", sample_id |-> sample.sample_id, status |-> "error", error |-> e]

FailedResult(sample, e) ==
    [kind |-> "value", sample_id |-> sample.sample_id, status |-> "failed", error |-> e]

\* A handler that lets the exception go on (a bare raise).
ExceptHandlerReraise(sample, e) ==
    [kind |-> "exception", sample_id |-> None, status |-> None, error |-> e]

\* The except clause of process_sample: it reads sample['sample_id'] itself,
\* so for a record without that key the handler raises KeyError and the
\* exception leaves process_sample, becoming the future's exception.
ExceptHandler(sample, e) ==
    IF "sample_id" \in sample.keys
    THEN FailedResult(sample, e)
    ELSE [kind |-> "exception", sample_id |-> None, status |-> None, error |-> "KeyError: sample_id"]

NoResult == [kind |-> "pending", sample_id |-> None, status |-> None, error |-> None]

\* Every task bound to the same sample (a variable captured late).
TaskForFirst(i) == samples[1]

\* The sample a submitted task is bound to.
TaskFor(i) == samples[i]

\* The future of item i completes with outcome r.
Complete(i, r) ==
    /\ future_to_sample' = [future_to_sample EXCEPT ![i] = r]
    /\ ipc' = [ipc EXCEPT ![i] = "finished"]
    /\ finish_order' = Append(finish_order, i)

\* A pool whose worker threads are never reused: a slot once taken stays taken.
RunningOrFinished == {i \in Items : ipc[i] \in {"upload", "params", "pipeline", "finished"}}

Running == {i \in Items : ipc[i] \in {"upload", "params", "pipeline"}}

\* A pool that starts a thread per task.
CanStartUnbounded == TRUE

\* ThreadPoolExecutor(max_workers=self.max_concurrent): a task leaves the
\* queue only when one of the at most max_concurrent worker threads is free.
CanStart == Cardinality(Running) < max_concurrent

\* A worker thread takes the oldest queued task and calls process_sample.
Start(i) ==
    /\ ipc[i] = "queued"
    /\ \A j \in 1..(i - 1) : ipc[j] # "queued"
    /\ CanStart
    /\ ipc' = [ipc EXCEPT ![i] = "upload"]
    /\ invocations' = [invocations EXCEPT ![i] = @ + 1]
    /\ UNCHANGED <<samples, params_files, max_concurrent, bpc, nsub, future_to_sample, upload_rc,
                   pipeline_rc, finish_order, results, summary, results_json, summary_json>>
    /\ UNCHANGED <<wfVars, pollVars, dlVars, monVars, paramVars, itemVars, replyVars, pipeVars, pmVars>>

\* Upload data: build the command (reads data_folder and sample_id), run it.
Upload(i) ==
    /\ ipc[i] = "upload"
    /\ LET sample == TaskFor(i) IN
       IF ~({"data_folder", "sample_id"} \subseteq sample.keys)
       THEN /\ Complete(i, ExceptHandler(sample, "KeyError"))
            /\ UNCHANGED upload_rc
       ELSE \E rc \in {0, 1} :
              /\ upload_rc' = [upload_rc EXCEPT ![i] = Some(rc)]
              /\ IF rc # 0
                 THEN Complete(i, ExceptHandler(sample, "Upload failed"))
                 ELSE /\ ipc' = [ipc EXCEPT ![i] = "params"]
                      /\ UNCHANGED <<future_to_sample, finish_order>>
    /\ UNCHANGED <<samples, params_files, max_concurrent, bpc, nsub, pipeline_rc, invocations,
                   results, summary, results_json, summary_json>>
    /\ UNCHANGED <<wfVars, pollVars, dlVars, monVars, paramVars, itemVars, replyVars, pipeVars, pmVars>>

\* params_file = f"{sample['sample_id']}_params.json", in the working
\* directory that all invocations share.
ParamsFile(sample) == sample.sample_id \o "_params.json"

\* The params files a batch can write.
ParamsFileNames == {id \o "_params.json" : id \in SampleIds}

\* Generate parameters: _generate_params reads sample_id, reference, pipeline;
\* the result is dumped to the params file.
GenerateParams(i) ==
    /\ ipc[i] = "params"
    /\ LET sample == TaskFor(i) IN
       IF ~({"sample_id", "reference", "pipeline"} \subseteq sample.keys)
       THEN /\ Complete(i, ExceptHandler(sample, "KeyError"))
            /\ UNCHANGED params_files
       ELSE /\ params_files' = [params_files EXCEPT ![ParamsFile(sample)] = Append(@, i)]
            /\ ipc' = [ipc EXCEPT ![i] = "pipeline"]
            /\ UNCHANGED <<future_to_sample, finish_order>>
    /\ UNCHANGED <<samples, max_concurrent, bpc, nsub, upload_rc, pipeline_rc, invocations,
                   results, summary, results_json, summary_json>>
    /\ UNCHANGED <<wfVars, pollVars, dlVars, monVars, paramVars, itemVars, replyVars, pipeVars, pmVars>>

\* Run pipeline: the workflow script as a subprocess.
PipelineWith(i, rc) ==
    /\ ipc[i] = "pipeline"
    /\ LET sample == TaskFor(i) IN
          /\ pipeline_rc' = [pipeline_rc EXCEPT ![i] = Some(rc)]
          /\ IF rc # 0
             THEN Complete(i, ExceptHandler(sample, "Pipeline failed"))
             ELSE Complete(i, CompletedResult(sample))
    /\ UNCHANGED <<samples, params_files, max_concurrent, bpc, nsub, upload_rc, invocations,
                   results, summary, results_json, summary_json>>
    /\ UNCHANGED <<wfVars, pollVars, dlVars, monVars, paramVars, itemVars, replyVars, pipeVars, pmVars>>

\* The workflow subprocess returns some code.
Pipeline(i) == \E rc \in {0, 1} : PipelineWith(i, rc)

\* --------------------------------------------------------- process_batch
\* executor.submit(self.process_sample, sample), one per sample, in order.
Submit ==
    /\ bpc = "submit"
    /\ nsub < Len(samples)
    /\ nsub' = nsub + 1
    /\ ipc' = [ipc EXCEPT ![nsub + 1] = "queued"]
    /\ UNCHANGED <<samples, params_files, max_concurrent, bpc, future_to_sample, upload_rc, pipeline_rc,
                   invocations, finish_order, results, summary, results_json, summary_json>>
    /\ UNCHANGED <<wfVars, pollVars, dlVars, monVars, paramVars, itemVars, replyVars, pipeVars, pmVars>>

\* The dict comprehension is complete: the for loop over the futures begins.
SubmitDone ==
    /\ bpc = "submit"
    /\ nsub = Len(samples)
    /\ bpc' = "collect"
    /\ UNCHANGED <<samples, params_files, max_concurrent, nsub, ipc, future_to_sample, upload_rc, pipeline_rc,
                   invocations, finish_order, results, summary, results_json, summary_json>>
    /\ UNCHANGED <<wfVars, pollVars, dlVars, monVars, paramVars, itemVars, replyVars, pipeVars, pmVars>>

\* A result read without waiting for the task.
DoneAlways(f) == TRUE

\* future.done(): the task has returned or raised.
Done(f) == f.kind # "pending"

\* The futures in the order they complete (concurrent.futures.as_completed).
NextFutureAsCompleted ==
    IF Len(finish_order) > Len(results)
    THEN finish_order[Len(results) + 1]
    ELSE CHOOSE i \in Items : future_to_sample[i].kind = "pending"

\* `for future in future_to_sample`: the dict iterates in insertion order, so
\* the next future waited for is the one of the next sample of the sheet.
NextFuture == Len(results) + 1

\* The loop has consumed every future.
AllCollected == Len(results) = Len(samples)

\* result = future.result(); results.append(result).  future.result() blocks
\* until the future is done and re-raises the exception of the task.
Collect ==
    /\ bpc = "collect"
    /\ ~AllCollected
    /\ Done(future_to_sample[NextFuture])
    /\ IF future_to_sample[NextFuture].kind = "exception"
       THEN /\ bpc' = "unwind"
            /\ UNCHANGED results
       ELSE /\ results' = Append(results, future_to_sample[NextFuture])
            /\ UNCHANGED bpc
    /\ UNCHANGED <<samples, params_files, max_concurrent, nsub, ipc, future_to_sample, upload_rc, pipeline_rc,
                   invocations, finish_order, summary, results_json, summary_json>>
    /\ UNCHANGED <<wfVars, pollVars, dlVars, monVars, paramVars, itemVars, replyVars, pipeVars, pmVars>>

\* executor.shutdown(wait=True): every submitted task has finished.
ShutdownWait == \A i \in Items : Done(future_to_sample[i])

\* Leaving the with block after the loop.
ExitPool ==
    /\ bpc = "collect"
    /\ AllCollected
    /\ ShutdownWait
    /\ bpc' = "summary"
    /\ UNCHANGED <<samples, params_files, max_concurrent, nsub, ipc, future_to_sample, upload_rc, pipeline_rc,
                   invocations, finish_order, results, summary, results_json, summary_json>>
    /\ UNCHANGED <<wfVars, pollVars, dlVars, monVars, paramVars, itemVars, replyVars, pipeVars, pmVars>>

\* An exception leaves the with block: the shutdown lets the queued and
\* running tasks finish, then the exception leaves process_batch.
Unwind ==
    /\ bpc = "unwind"
    /\ ShutdownWait
    /\ bpc' = "crashed"
    /\ UNCHANGED <<samples, params_files, max_concurrent, nsub, ipc, future_to_sample, upload_rc, pipeline_rc,
                   invocations, finish_order, results, summary, results_json, summary_json>>
    /\ UNCHANGED <<wfVars, pollVars, dlVars, monVars, paramVars, itemVars, replyVars, pipeVars, pmVars>>

\* len([r for r in results if r['status'] == s])
CountStatus(rs, s) == Cardinality({j \in 1..Len(rs) : rs[j].status = s})

\* Generate summary report.
Summarize ==
    /\ bpc = "summary"
    /\ summary' = Some([total_samples |-> Len(samples),
                        completed |-> CountStatus(results, "completed"),
                        failed |-> CountStatus(results, "failed")])
    /\ bpc' = "save_results"
    /\ UNCHANGED <<samples, params_files, max_concurrent, nsub, ipc, future_to_sample, upload_rc, pipeline_rc,
                   invocations, finish_order, results, results_json, summary_json>>
    /\ UNCHANGED <<wfVars, pollVars, dlVars, monVars, paramVars, itemVars, replyVars, pipeVars, pmVars>>

\* Save results: mkdir, open and json.dump of results.json; an OSError of
\* theirs leaves process_batch.
SaveResults ==
    /\ bpc = "save_results"
    /\ \E written \in BOOLEAN :
          IF written
          THEN /\ results_json' = Some(results)
               /\ bpc' = "save_summary"
          ELSE /\ bpc' = "write_failed"
               /\ UNCHANGED results_json
    /\ UNCHANGED <<samples, params_files, max_concurrent, nsub, ipc, future_to_sample, upload_rc, pipeline_rc,
                   invocations, finish_order, results, summary, summary_json>>
    /\ UNCHANGED <<wfVars, pollVars, dlVars, monVars, paramVars, itemVars, replyVars, pipeVars, pmVars>>

\* Save summary: open and json.dump of summary.json, then `return results`;
\* an OSError of theirs leaves process_batch.
SaveSummary ==
    /\ bpc = "save_summary"
    /\ \E written \in BOOLEAN :
          IF written
          THEN /\ summary_json' = summary
               /\ bpc' = "done"
          ELSE /\ bpc' = "write_failed"
               /\ UNCHANGED summary_json
    /\ UNCHANGED <<samples, params_files, max_concurrent, nsub, ipc, future_to_sample, upload_rc, pipeline_rc,
                   invocations, finish_order, results, summary, results_json>>
    /\ UNCHANGED <<wfVars, pollVars, dlVars, monVars, paramVars, itemVars, replyVars, pipeVars, pmVars>>

InitBatch ==
    /\ samples \in SampleSheets
    /\ params_files = [f \in ParamsFileNames |-> <<>>]
    /\ max_concurrent \in 1..MaxConcurrent
    /\ bpc = "submit"
    /\ nsub = 0
    /\ ipc = [i \in Items |-> "unsubmitted"]
    /\ future_to_sample = [i \in Items |-> NoResult]
    /\ upload_rc = [i \in Items |-> NotRun]
    /\ pipeline_rc = [i \in Items |-> NotRun]
    /\ invocations = [i \in Items |-> 0]
    /\ finish_order = <<>>
    /\ results = <<>>
    /\ summary = Absent
    /\ results_json = NotWritten
    /\ summary_json = NotWritten

NextBatch ==
    \/ Submit
    \/ SubmitDone
    \/ \E i \in Items : Start(i)
    \/ \E i \in Items : Upload(i)
    \/ \E i \in Items : GenerateParams(i)
    \/ \E i \in Items : Pipeline(i)
    \/ Collect
    \/ ExitPool
    \/ Unwind
    \/ Summarize
    \/ SaveResults
    \/ SaveSummary

\* process_batch is not running.
IdleBatch ==
    /\ samples = <<>>
    /\ params_files = [f \in ParamsFileNames |-> <<>>]
    /\ max_concurrent = 1
    /\ bpc = "idle"
    /\ nsub = 0
    /\ ipc = <<>>
    /\ future_to_sample = <<>>
    /\ upload_rc = <<>>
    /\ pipeline_rc = <<>>
    /\ invocations = <<>>
    /\ finish_order = <<>>
    /\ results = <<>>
    /\ summary = Absent
    /\ results_json = NotWritten
    /\ summary_json = NotWritten

\* ------------------------------------------------------ ica_cli_workflow
\* Strings are sequences of characters.  A Python Optional[str] is Absent for
\* None and Some(s) for the string s.
PathChars == {"a", "/", "\\"}

RECURSIVE StringsUpTo(_, _)
StringsUpTo(chars, n) ==
    IF n = 0 THEN {<<>>}
    ELSE LET shorter == StringsUpTo(chars, n - 1) IN
         shorter \cup {Append(t, c) : t \in shorter, c \in chars}

\* bool(v) of an Optional[str]: None and the empty string are falsy.
Truthy(v) == v # Absent /\ v[1] # <<>>

\* s.rstrip('/\\')
RECURSIVE RStripSlashes(_)
RStripSlashes(s) ==
    IF s # <<>> /\ s[Len(s)] \in {"/", "\\"}
    THEN RStripSlashes(SubSeq(s, 1, Len(s) - 1))
    ELSE s

\* os.path.basename(s): what follows the last "/".
RECURSIVE Basename(_)
Basename(s) ==
    IF s = <<>> \/ s[Len(s)] = "/" THEN <<>>
    ELSE Append(Basename(SubSeq(s, 1, Len(s) - 1)), s[Len(s)])

\* s.strip()
RECURSIVE LStrip(_)
LStrip(s) == IF s # <<>> /\ s[1] = " " THEN LStrip(Tail(s)) ELSE s

RECURSIVE RStrip(_)
RStrip(s) == IF s # <<>> /\ s[Len(s)] = " " THEN RStrip(SubSeq(s, 1, Len(s) - 1)) ELSE s

Strip(s) == LStrip(RStrip(s))

\* A line of the pipeline script's stdout: whether it contains "Analysis ID:"
\* and the text that follows the first occurrence.
IdChars == {" ", "x"}

StdoutLines == {[marker |-> m, rest |-> r] : m \in BOOLEAN, r \in StringsUpTo(IdChars, MaxIdLen)}

Stdouts == UNION {[1..n -> StdoutLines] : n \in 0..MaxLines}

\* run_pipeline's scan of stdout: the first line containing "Analysis ID:"
\* gives line.split("Analysis ID:", 1)[1].strip(); no such line gives None.
RECURSIVE ExtractAnalysisId(_)
ExtractAnalysisId(lines) ==
    IF lines = <<>> THEN Absent
    ELSE IF Head(lines).marker THEN Some(Strip(Head(lines).rest))
    ELSE ExtractAnalysisId(Tail(lines))

\* run_upload's return value for the outcome of the upload subprocess.
RunUploadResult(outcome) ==
    IF outcome = "ok"
    THEN IF Truthy(wf_args.folder_name)
         THEN wf_args.folder_name
         ELSE Some(Basename(RStripSlashes(wf_args.input_folder)))
    ELSE Absent

\* run_pipeline's return value for the outcome and stdout of the subprocess.
RunPipelineResult(outcome, stdout) ==
    IF outcome = "ok" THEN ExtractAnalysisId(stdout) ELSE Absent

\* The outcomes of a subprocess call: return code 0, another return code, or
\* an exception of subprocess.run / Popen.
Outcomes == {"ok", "nonzero", "exception"}

Event(kind, stage, v) == [ev |-> kind, stage |-> stage, val |-> v]

\* main carries on although no folder name came back.
UploadFailedNever == FALSE

\* `if not folder_name:` after run_upload.
UploadFailed == ~Truthy(folder_name)

\* `if not analysis_id:` after run_pipeline.
PipelineStartFailed == ~Truthy(analysis_id)

\* The local folder handed on instead of the uploaded folder's name.
SubmitInputLocal == Some(wf_args.input_folder)

\* The input_folder argument main passes to run_pipeline.
SubmitInput == folder_name

\* The analysis_id argument main passes to run_download.
DownloadInput == analysis_id

\* check_ica_cli(), and the exit when the CLI is missing.
CheckCli ==
    /\ wf_pc = "check_cli"
    /\ \E cli_ok \in BOOLEAN :
          IF cli_ok
          THEN /\ wf_pc' = "upload"
               /\ UNCHANGED <<wf_out, wf_exit>>
          ELSE /\ wf_pc' = "exited"
               /\ wf_out' = Append(wf_out, "Error: ICA CLI not found.")
               /\ wf_exit' = Some(1)
    /\ UNCHANGED <<wf_args, folder_name, analysis_id, wf_log>>
    /\ UNCHANGED <<batchVars, pollVars, dlVars, monVars, paramVars, itemVars, replyVars, pipeVars, pmVars>>

\* Step 1: main calls run_upload, which starts the upload script.
UploadCall ==
    /\ wf_pc = "upload"
    /\ wf_log' = Append(wf_log, Event("call", "upload", Some(wf_args.input_folder)))
    /\ wf_pc' = "uploading"
    /\ UNCHANGED <<wf_args, folder_name, analysis_id, wf_out, wf_exit>>
    /\ UNCHANGED <<batchVars, pollVars, dlVars, monVars, paramVars, itemVars, replyVars, pipeVars, pmVars>>

\* run_upload returns; main stops when the folder name is falsy.
UploadReturn ==
    /\ wf_pc = "uploading"
    /\ \E outcome \in Outcomes :
          /\ folder_name' = RunUploadResult(outcome)
          /\ wf_log' = Append(wf_log, Event("ret", "upload", RunUploadResult(outcome)))
    /\ wf_pc' = "upload_check"
    /\ UNCHANGED <<wf_args, analysis_id, wf_out, wf_exit>>
    /\ UNCHANGED <<batchVars, pollVars, dlVars, monVars, paramVars, itemVars, replyVars, pipeVars, pmVars>>

UploadCheck ==
    /\ wf_pc = "upload_check"
    /\ IF UploadFailed
       THEN /\ wf_out' = Append(wf_out, "Upload failed. Stopping workflow.")
            /\ wf_exit' = Some(1)
            /\ wf_pc' = "exited"
       ELSE /\ wf_pc' = "submit"
            /\ UNCHANGED <<wf_out, wf_exit>>
    /\ UNCHANGED <<wf_args, folder_name, analysis_id, wf_log>>
    /\ UNCHANGED <<batchVars, pollVars, dlVars, monVars, paramVars, itemVars, replyVars, pipeVars, pmVars>>

\* Step 2: main calls run_pipeline with the folder name.
PipelineCall ==
    /\ wf_pc = "submit"
    /\ wf_log' = Append(wf_log, Event("call", "submit", SubmitInput))
    /\ wf_pc' = "submitting"
    /\ UNCHANGED <<wf_args, folder_name, analysis_id, wf_out, wf_exit>>
    /\ UNCHANGED <<batchVars, pollVars, dlVars, monVars, paramVars, itemVars, replyVars, pipeVars, pmVars>>

\* run_pipeline returns.  A None in the command line makes subprocess.run
\* raise, which run_pipeline catches.
PipelineReturnWith(outcome, stdout) ==
    /\ wf_pc = "submitting"
    /\ wf_log[Len(wf_log)].val = Absent => outcome = "exception"
    /\ analysis_id' = RunPipelineResult(outcome, stdout)
    /\ wf_log' = Append(wf_log, Event("ret", "submit", RunPipelineResult(outcome, stdout)))
    /\ wf_pc' = "submit_check"
    /\ UNCHANGED <<wf_args, folder_name, wf_out, wf_exit>>
    /\ UNCHANGED <<batchVars, pollVars, dlVars, monVars, paramVars, replyVars, pipeVars, pmVars>>

\* run_pipeline returns, for any outcome and any stdout of the pipeline script.
PipelineReturn ==
    /\ \E outcome \in Outcomes :
          \E stdout \in IF outcome = "ok" THEN Stdouts ELSE {<<>>} :
             PipelineReturnWith(outcome, stdout)
    /\ UNCHANGED itemVars

PipelineCheck ==
    /\ wf_pc = "submit_check"
    /\ IF PipelineStartFailed
       THEN /\ wf_out' = Append(wf_out, "Pipeline start failed. Stopping workflow.")
            /\ wf_exit' = Some(1)
            /\ wf_pc' = "exited"
       ELSE /\ wf_pc' = "download"
            /\ UNCHANGED <<wf_out, wf_exit>>
    /\ UNCHANGED <<wf_args, folder_name, analysis_id, wf_log>>
    /\ UNCHANGED <<batchVars, pollVars, dlVars, monVars, paramVars, itemVars, replyVars, pipeVars, pmVars>>

\* Step 3: main calls run_download with the analysis id.
DownloadCall ==
    /\ wf_pc = "download"
    /\ wf_log' = Append(wf_log, Event("call", "download", DownloadInput))
    /\ wf_pc' = "downloading"
    /\ UNCHANGED <<wf_args, folder_name, analysis_id, wf_out, wf_exit>>
    /\ UNCHANGED <<batchVars, pollVars, dlVars, monVars, paramVars, itemVars, replyVars, pipeVars, pmVars>>

\* A workflow script that exits 0 whatever run_download answered.
WorkflowExitCodeZero(outcome) == 0

\* sys.exit(0 if success else 1), success being True for return code 0 only.
WorkflowExitCode(outcome) == IF outcome = "ok" THEN 0 ELSE 1

\* run_download returns True for return code 0; sys.exit(0 if success else 1).
DownloadReturnWith(outcome) ==
    /\ wf_pc = "downloading"
    /\ wf_log' = Append(wf_log, Event("ret", "download",
                                      Some(<<IF outcome = "ok" THEN "True" ELSE "False">>)))
    /\ wf_exit' = Some(WorkflowExitCode(outcome))
    /\ wf_pc' = "exited"
    /\ UNCHANGED <<wf_args, folder_name, analysis_id, wf_out>>
    /\ UNCHANGED <<batchVars, pollVars, dlVars, monVars, paramVars, itemVars, replyVars, pipeVars, pmVars>>

\* run_download returns, for any outcome of the download script.
DownloadReturn == \E outcome \in Outcomes : DownloadReturnWith(outcome)

WorkflowArgs ==
    {[input_folder |-> p, folder_name |-> f] :
        p \in StringsUpTo(PathChars, MaxPathLen),
        f \in {Absent, Some(<<>>), Some(<<"b">>)}}

InitWorkflow ==
    /\ wf_args \in WorkflowArgs
    /\ wf_pc = "check_cli"
    /\ folder_name = Absent
    /\ analysis_id = Absent
    /\ wf_log = <<>>
    /\ wf_out = <<>>
    /\ wf_exit = Absent

\* The workflow script is not running.
IdleWorkflow ==
    /\ wf_args = [input_folder |-> <<>>, folder_name |-> Absent]
    /\ wf_pc = "idle"
    /\ folder_name = Absent
    /\ analysis_id = Absent
    /\ wf_log = <<>>
    /\ wf_out = <<>>
    /\ wf_exit = Absent

NextWorkflow ==
    \/ CheckCli
    \/ UploadCall
    \/ UploadReturn
    \/ UploadCheck
    \/ PipelineCall
    \/ PipelineReturn
    \/ PipelineCheck
    \/ DownloadCall
    \/ DownloadReturn

\* ------------------------------------------------------ ica_cli_download
DefaultPollingInterval == 60

PollingIntervals == {1, DefaultPollingInterval}

\* The values of analysis['status'] ("QUEUED" stands for any other value).
Statuses == {"PENDING", "RUNNING", "QUEUED", "COMPLETED", "FAILED", "ABORTED", "TERMINATED"}

FolderIds == {"", "f1", "f2"}

\* What one call of `ica pipelines history` gives: its return code, whether
\* stdout parses as a JSON object, the object's status (Absent when the key is
\* missing) and output.folder.id (Absent when missing).
Responses ==
    {[rc |-> rc, parsable |-> ok, status |-> st, folder |-> f] :
        rc \in {0, 1}, ok \in BOOLEAN,
        st \in {Absent} \cup {Some(x) : x \in Statuses},
        f \in {Absent} \cup {Some(x) : x \in FolderIds}}

\* How the remote call of a status query went: a non-zero return code, a
\* stdout that json.loads or analysis.get rejects (an exception), or neither.
QueryOutcome(resp) ==
    IF resp.rc # 0 THEN "nonzero"
    ELSE IF ~resp.parsable THEN "unparsable"
    ELSE "ok"

\* A status query whose return code is not looked at.
GetAnalysisStatusAnyRc(resp) ==
    IF ~resp.parsable
    THEN [status |-> Absent, folder |-> Absent]
    ELSE [status |-> resp.status,
          folder |-> IF resp.status = Some("COMPLETED") THEN resp.folder ELSE Absent]

\* get_analysis_status: the pair (status, output_folder_id).
GetAnalysisStatus(resp) ==
    IF resp.rc # 0 \/ ~resp.parsable
    THEN [status |-> Absent, folder |-> Absent]
    ELSE [status |-> resp.status,
          folder |-> IF resp.status = Some("COMPLETED") THEN resp.folder ELSE Absent]

QueryEvent(r) == [ev |-> "query", status |-> r.status, folder |-> r.folder, secs |-> 0]

SleepEvent(n) == [ev |-> "sleep", status |-> Absent, folder |-> Absent, secs |-> n]

\* A sleep of the default interval, whatever the argument.
SleepSecondsDefault == DefaultPollingInterval

\* time.sleep(polling_interval)
SleepSeconds == polling_interval

\* A loop that gives up on every status but COMPLETED.
GivesUpUnlessCompleted(status) == status # Some("COMPLETED")

\* `status in ['FAILED', 'ABORTED', 'TERMINATED']`.
GivesUp(status) == status \in {Some("FAILED"), Some("ABORTED"), Some("TERMINATED")}

\* `return None` when get_analysis_status gave no status.
QueryErrorReturn == Some(Absent)

\* `return None` when the run ended FAILED, ABORTED or TERMINATED.
TerminalFailureReturn(status) == Some(Absent)

\* `return folder_id` when the run is COMPLETED.
CompletedReturn(folder_id) == Some(folder_id)

\* One iteration of the loop up to its return or its sleep.
Query ==
    /\ poll_pc = "query"
    /\ Len(SelectSeq(poll_log, LAMBDA e : e.ev = "query")) < MaxPolls
    /\ \E resp \in Responses :
          LET r == GetAnalysisStatus(resp) IN
          /\ poll_log' = Append(poll_log, QueryEvent(r))
          /\ poll_resp' = Append(poll_resp, QueryOutcome(resp))
          /\ IF r.status = Absent
             THEN /\ poll_ret' = QueryErrorReturn
                  /\ poll_pc' = "returned"
             ELSE IF r.status = Some("COMPLETED")
             THEN /\ poll_ret' = CompletedReturn(r.folder)
                  /\ poll_pc' = "returned"
             ELSE IF GivesUp(r.status)
             THEN /\ poll_ret' = TerminalFailureReturn(r.status)
                  /\ poll_pc' = "returned"
             ELSE /\ poll_pc' = "sleep"
                  /\ UNCHANGED poll_ret
    /\ UNCHANGED polling_interval
    /\ UNCHANGED <<batchVars, wfVars, dlVars, monVars, paramVars, itemVars, replyVars, pipeVars, pmVars>>

Sleep ==
    /\ poll_pc = "sleep"
    /\ poll_log' = Append(poll_log, SleepEvent(SleepSeconds))
    /\ poll_pc' = "query"
    /\ UNCHANGED <<polling_interval, poll_ret, poll_resp>>
    /\ UNCHANGED <<batchVars, wfVars, dlVars, monVars, paramVars, itemVars, replyVars, pipeVars, pmVars>>

InitPoller ==
    /\ polling_interval \in PollingIntervals
    /\ poll_pc = "query"
    /\ poll_log = <<>>
    /\ poll_ret = Absent
    /\ poll_resp = <<>>

\* wait_for_analysis is not running.
IdlePoller ==
    /\ polling_interval = DefaultPollingInterval
    /\ poll_pc = "idle"
    /\ poll_log = <<>>
    /\ poll_ret = Absent
    /\ poll_resp = <<>>

NextPoller ==
    \/ Query
    \/ Sleep

\* --- ica_cli_download.main -------------------------------------------------

\* `if not folder_id` looked at only for None.
FolderMissingOnlyNone(folder_id) == folder_id = Absent

\* `not folder_id`: None and the empty string are both falsy.
FolderMissing(folder_id) == folder_id = Absent \/ folder_id = Some("")

\* check_ica_cli, then the exit of main when it answers False.
DlCheckCli ==
    /\ dl_pc = "check_cli"
    /\ \E found \in BOOLEAN :
          IF found
          THEN /\ dl_pc' = "project"
               /\ UNCHANGED <<dl_out, dl_exit>>
          ELSE /\ dl_out' = Append(dl_out, "Error: ICA CLI not found")
               /\ dl_exit' = Some(1)
               /\ dl_pc' = "exited"
    /\ UNCHANGED <<dl_no_wait, dl_folder_id, dl_calls>>
    /\ UNCHANGED <<batchVars, wfVars, pollVars, monVars, paramVars, itemVars, replyVars, pipeVars, pmVars>>

\* get_project_id, then `if not project_id: sys.exit(1)`.
DlGetProject ==
    /\ dl_pc = "project"
    /\ \E found \in BOOLEAN :
          IF found
          THEN /\ dl_pc' = IF dl_no_wait THEN "status" ELSE "call_wait"
               /\ UNCHANGED dl_exit
          ELSE /\ dl_exit' = Some(1)
               /\ dl_pc' = "exited"
    /\ UNCHANGED <<dl_no_wait, dl_folder_id, dl_calls, dl_out>>
    /\ UNCHANGED <<batchVars, wfVars, pollVars, monVars, paramVars, itemVars, replyVars, pipeVars, pmVars>>

\* --no-wait: one status query, and the exit when it is not COMPLETED.
DlNoWaitStatus ==
    /\ dl_pc = "status"
    /\ \E resp \in Responses :
          LET r == GetAnalysisStatus(resp) IN
          /\ poll_log' = Append(poll_log, QueryEvent(r))
          /\ poll_resp' = Append(poll_resp, QueryOutcome(resp))
          /\ IF r.status # Some("COMPLETED")
             THEN /\ dl_out' = Append(dl_out, "Analysis is not complete")
                  /\ dl_exit' = Some(1)
                  /\ dl_pc' = "exited"
                  /\ UNCHANGED dl_folder_id
             ELSE /\ dl_folder_id' = r.folder
                  /\ dl_pc' = "check_folder"
                  /\ UNCHANGED <<dl_out, dl_exit>>
    /\ UNCHANGED <<dl_no_wait, dl_calls>>
    /\ UNCHANGED <<polling_interval, poll_pc, poll_ret>>
    /\ UNCHANGED <<batchVars, wfVars, monVars, paramVars, itemVars, replyVars, pipeVars, pmVars>>

\* The call of wait_for_analysis(args.analysis_id, args.polling_interval).
DlCallWait ==
    /\ dl_pc = "call_wait"
    /\ poll_pc = "idle"
    /\ poll_pc' = "query"
    /\ dl_pc' = "waiting"
    /\ UNCHANGED <<dl_no_wait, dl_folder_id, dl_calls, dl_out, dl_exit>>
    /\ UNCHANGED <<polling_interval, poll_log, poll_ret, poll_resp>>
    /\ UNCHANGED <<batchVars, wfVars, monVars, paramVars, itemVars, replyVars, pipeVars, pmVars>>

\* folder_id = the value wait_for_analysis returned.
DlWaitReturn ==
    /\ dl_pc = "waiting"
    /\ poll_pc = "returned"
    /\ dl_folder_id' = poll_ret[1]
    /\ dl_pc' = "check_folder"
    /\ UNCHANGED <<dl_no_wait, dl_calls, dl_out, dl_exit>>
    /\ UNCHANGED <<batchVars, wfVars, pollVars, monVars, paramVars, itemVars, replyVars, pipeVars, pmVars>>

\* `if not folder_id: print(...); sys.exit(1)`.
DlCheckFolder ==
    /\ dl_pc = "check_folder"
    /\ IF FolderMissing(dl_folder_id)
       THEN /\ dl_out' = Append(dl_out, "Could not get output folder ID")
            /\ dl_exit' = Some(1)
            /\ dl_pc' = "exited"
       ELSE /\ dl_pc' = "download"
            /\ UNCHANGED <<dl_out, dl_exit>>
    /\ UNCHANGED <<dl_no_wait, dl_folder_id, dl_calls>>
    /\ UNCHANGED <<batchVars, wfVars, pollVars, monVars, paramVars, itemVars, replyVars, pipeVars, pmVars>>

\* success = download_folder(project_id, folder_id, output_dir), then
\* sys.exit(0 if success else 1).
DlDownload ==
    /\ dl_pc = "download"
    /\ dl_calls' = Append(dl_calls, dl_folder_id)
    /\ \E success \in BOOLEAN :
          dl_exit' = Some(IF success THEN 0 ELSE 1)
    /\ dl_pc' = "exited"
    /\ UNCHANGED <<dl_no_wait, dl_folder_id, dl_out>>
    /\ UNCHANGED <<batchVars, wfVars, pollVars, monVars, paramVars, itemVars, replyVars, pipeVars, pmVars>>

\* The state of main after parse_args; wait_for_analysis is not yet called.
InitDownload ==
    /\ dl_no_wait \in BOOLEAN
    /\ dl_pc = "check_cli"
    /\ dl_folder_id = Absent
    /\ dl_calls = <<>>
    /\ dl_out = <<>>
    /\ dl_exit = Absent
    /\ polling_interval \in PollingIntervals
    /\ poll_pc = "idle"
    /\ poll_log = <<>>
    /\ poll_ret = Absent
    /\ poll_resp = <<>>

\* The download script is not run.
IdleDownload ==
    /\ dl_no_wait = FALSE
    /\ dl_pc = "idle"
    /\ dl_folder_id = Absent
    /\ dl_calls = <<>>
    /\ dl_out = <<>>
    /\ dl_exit = Absent

NextDownload ==
    \/ DlCheckCli
    \/ DlGetProject
    \/ DlNoWaitStatus
    \/ DlCallWait
    \/ Query
    \/ Sleep
    \/ DlWaitReturn
    \/ DlCheckFolder
    \/ DlDownload

\* A run of the batch processor.
\* --- ICABatchProcessor._generate_params ------------------------------------
\* A Python dict is a function from its keys; every value is written as the
\* text json.dump gives it.

\* The pipeline names tried: the three of the rule table and one outside it.
Pipelines == {"dragen-germline", "dragen-rna", "dragen-enrichment", "other"}

\* The keys and values tried in a custom_params mapping: a generated flag, a
\* base key, and a key no rule generates.
CustomKeys == {"enable-sort", "sample-id", "extra"}

CustomValues == {"False", "v"}

\* The mappings a YAML sheet can give as custom_params.
CustomDicts ==
    UNION {[K -> CustomValues] :
              K \in {S \in SUBSET CustomKeys : Cardinality(S) <= MaxCustomParams}}

\* What sample['custom_params'] can be: a mapping (YAML), a string (every
\* value of a CSV sheet is one, possibly empty), or None (a YAML key without
\* value); the key can also be absent.
CustomParams ==
    {[kind |-> "dict", dict |-> d, text |-> ""] : d \in CustomDicts}
    \cup {[kind |-> "str", dict |-> <<>>, text |-> t] : t \in {"", "{'extra': 'v'}"}}
    \cup {[kind |-> "none", dict |-> <<>>, text |-> ""]}

\* The sample records tried: any of the fields _generate_params indexes may
\* be missing, target_bed and custom_params are optional.
ParamSamples ==
    {[keys |-> K, sample_id |-> "s1", reference |-> "hg38", pipeline |-> pl,
      target_bed |-> tb, custom_params |-> cp] :
        K \in SUBSET {"sample_id", "reference", "pipeline"},
        pl \in Pipelines,
        tb \in {Absent, Some("t.bed")},
        cp \in {Absent} \cup {Some(c) : c \in CustomParams}}

\* base_params as first built.
BaseParams(sample) ==
    [k \in {"sample-id", "reference-tar", "output-directory"} |->
        IF k = "sample-id" THEN sample.sample_id
        ELSE IF k = "reference-tar"
        THEN "/reference-data/" \o sample.reference \o "/" \o sample.reference \o ".fa"
        ELSE "/output"]

\* A rule table in which germline sets two flags only.
TypeParamsShort(sample) ==
    IF sample.pipeline = "dragen-germline"
    THEN [k \in {"enable-map-align", "enable-variant-caller"} |-> "True"]
    ELSE <<>>

\* The pipeline-specific parameters; none for a pipeline outside the table.
TypeParams(sample) ==
    IF sample.pipeline = "dragen-germline"
    THEN [k \in {"enable-map-align", "enable-sort", "enable-duplicate-marking",
                 "enable-variant-caller"} |-> "True"]
    ELSE IF sample.pipeline = "dragen-rna"
    THEN [k \in {"enable-rna", "enable-rna-quantification", "annotation-file"} |->
            IF k = "annotation-file"
            THEN "/reference-data/" \o sample.reference \o "/genes.gtf"
            ELSE "True"]
    ELSE IF sample.pipeline = "dragen-enrichment"
    THEN [k \in {"enable-map-align", "enable-variant-caller", "vc-target-bed",
                 "vc-target-bed-padding"} |->
            IF k = "vc-target-bed"
            THEN (IF sample.target_bed = Absent THEN None ELSE sample.target_bed[1])
            ELSE IF k = "vc-target-bed-padding" THEN "100"
            ELSE "True"]
    ELSE <<>>

\* An update that keeps the value of a key the dict already has.
UpdateKeepExisting(d, e) ==
    [k \in DOMAIN d \cup DOMAIN e |-> IF k \in DOMAIN d THEN d[k] ELSE e[k]]

\* d.update(e) for a mapping e: the keys of e take the values of e.
Update(d, e) ==
    [k \in DOMAIN d \cup DOMAIN e |-> IF k \in DOMAIN e THEN e[k] ELSE d[k]]

\* What a call ends with: the returned dict, or the exception raised.
Returned(d) == [raised |-> None, params |-> d]

Raised(e) == [raised |-> e, params |-> <<>>]

\* _generate_params(sample), statement by statement.
GenerateParamsOf(sample) ==
    IF "sample_id" \notin sample.keys \/ "reference" \notin sample.keys
    THEN Raised("KeyError")
    ELSE IF "pipeline" \notin sample.keys
    THEN Raised("KeyError")
    ELSE LET generated == Update(BaseParams(sample), TypeParams(sample)) IN
         IF sample.custom_params = Absent
         THEN Returned(generated)
         ELSE LET custom == sample.custom_params[1] IN
              IF custom.kind = "dict"
              THEN Returned(Update(generated, custom.dict))
              ELSE IF custom.kind = "none"
              THEN Raised("TypeError")
              ELSE IF custom.text = ""
              THEN Returned(generated)
              ELSE Raised("ValueError")

\* The call and its end.
CallGenerateParams ==
    /\ gp_pc = "call"
    /\ LET r == GenerateParamsOf(gp_sample) IN
       IF r.raised = None
       THEN /\ gp_out' = Some(r.params)
            /\ gp_pc' = "returned"
            /\ UNCHANGED gp_exc
       ELSE /\ gp_exc' = Some(r.raised)
            /\ gp_pc' = "raised"
            /\ UNCHANGED gp_out
    /\ UNCHANGED gp_sample
    /\ UNCHANGED <<batchVars, wfVars, pollVars, dlVars, monVars, itemVars, replyVars, pipeVars, pmVars>>

InitParams ==
    /\ gp_sample \in ParamSamples
    /\ gp_pc = "call"
    /\ gp_out = Absent
    /\ gp_exc = Absent

\* _generate_params is not called.
IdleParams ==
    /\ gp_sample = Absent
    /\ gp_pc = "idle"
    /\ gp_out = Absent
    /\ gp_exc = Absent

NextParams == CallGenerateParams

\* --- ica_monitor ------------------------------------------------------------
\* The default of threshold_percent.
DefaultThresholdPercent == 90

\* The statuses a run can have on the platform.
RunStatuses == {"Pending", "Running", "Completed", "Failed", "Aborted", "Terminated"}

\* The statuses after which a run changes no more.
TerminalRunStatuses == {"Completed", "Failed", "Aborted", "Terminated"}

\* `current_status in ['Completed', 'Failed']`.
MonitorTerminal(status) == status \in {"Completed", "Failed"}

\* The check_interval arguments tried.
CheckIntervals == {1, 2}

\* The threshold_percent arguments tried (the last is the default).
ThresholdPercents == {50, 58, DefaultThresholdPercent}

\* The budget_threshold arguments tried.
BudgetThresholds == {1}

\* The gigabytes and the costs a response can report.
Amounts == (0..MaxAmount) \cup {29, 50}

\* Python floats are IEEE 754 doubles: a significand of MantissaBits bits
\* (most significant first, the first one set) and a binary exponent e, of
\* value significand * 2^(e - MantissaBits + 1); every operation rounds to
\* nearest, ties to even.
MantissaBits == 53

RECURSIVE BinaryExponent(_, _)
\* The e with 2^e <= n/d < 2^(e+1), for n, d > 0.
BinaryExponent(n, d) ==
    IF n >= 2 * d THEN BinaryExponent(n, 2 * d) + 1
    ELSE IF n < d THEN BinaryExponent(2 * n, d) - 1
    ELSE 0

RECURSIVE Pow2(_)
\* 2^k.
Pow2(k) == IF k = 0 THEN 1 ELSE 2 * Pow2(k - 1)

RECURSIVE QuotientBits(_, _, _)
\* The first k bits (most significant first) of r/d for r < 2d, with the
\* remainder left after them as last element.
QuotientBits(r, d, k) ==
    IF k = 0 THEN <<r>>
    ELSE IF r >= d THEN <<1>> \o QuotientBits(2 * (r - d), d, k - 1)
    ELSE <<0>> \o QuotientBits(2 * r, d, k - 1)

RECURSIVE Increment(_)
\* A bit sequence plus one; an overflow adds a leading bit.
Increment(bits) ==
    IF bits = <<>> THEN <<1>>
    ELSE IF bits[Len(bits)] = 0 THEN SubSeq(bits, 1, Len(bits) - 1) \o <<1>>
    ELSE Increment(SubSeq(bits, 1, Len(bits) - 1)) \o <<0>>

\* Round-to-nearest-even of a significand `bits` followed by the discarded
\* bits `rest` (sticky tells whether anything non-zero lies beyond rest).
\* The result is a record of the MantissaBits bits and the exponent shift.
RoundNearestEven(bits, rest, sticky) ==
    LET half == rest # <<>> /\ rest[1] = 1
        beyond == sticky \/ \E i \in 2..Len(rest) : rest[i] = 1
        up == half /\ (beyond \/ bits[Len(bits)] = 1)
        inc == IF up THEN Increment(bits) ELSE bits
    IN IF Len(inc) > Len(bits)
       THEN [m |-> SubSeq(inc, 1, Len(bits)), shift |-> 1]
       ELSE [m |-> inc, shift |-> 0]

\* float(n) / float(d) for integers n > 0, d > 0: significand and exponent.
FloatDiv(n, d) ==
    LET e == BinaryExponent(n, d)
        nn == IF e < 0 THEN n * Pow2(-e) ELSE n
        dd == IF e > 0 THEN d * Pow2(e) ELSE d
        q == QuotientBits(nn, dd, MantissaBits + 1)
        r == q[MantissaBits + 2]
        rounded == RoundNearestEven(SubSeq(q, 1, MantissaBits),
                                    <<q[MantissaBits + 1]>>, r # 0)
    IN [m |-> rounded.m, e |-> e + rounded.shift]

RECURSIVE TimesSmall(_, _, _, _)
\* The bits, most significant first, of (the first i bits of `bits`) * c + carry.
TimesSmall(bits, c, i, carry) ==
    IF carry = 0 /\ i = 0 THEN <<>>
    ELSE IF i = 0 THEN TimesSmall(bits, c, 0, carry \div 2) \o <<carry % 2>>
    ELSE TimesSmall(bits, c, i - 1, (bits[i] * c + carry) \div 2)
             \o <<(bits[i] * c + carry) % 2>>

\* x * float(c) for a double x and a small integer c > 0.
FloatTimes(x, c) ==
    LET p == TimesSmall(x.m, c, MantissaBits, 0)
        extra == Len(p) - MantissaBits
        rounded == RoundNearestEven(SubSeq(p, 1, MantissaBits),
                                    SubSeq(p, MantissaBits + 1, Len(p)), FALSE)
    IN [m |-> rounded.m, e |-> x.e + extra + rounded.shift]

RECURSIVE BitsToNat(_)
\* The number a bit sequence writes.
BitsToNat(bits) ==
    IF bits = <<>> THEN 0
    ELSE 2 * BitsToNat(SubSeq(bits, 1, Len(bits) - 1)) + bits[Len(bits)]

\* math.floor of a double x >= 1 below 2^31.
FloatFloor(x) == IF x.e < 0 THEN 0 ELSE BitsToNat(SubSeq(x.m, 1, x.e + 1))

\* usage_percent = (used_gb / total_gb) * 100 for used_gb > 0, total_gb > 0.
UsagePercent(used, total) == FloatTimes(FloatDiv(used, total), 100)

\* math.floor(usage_percent) for every pair of readings; 0.0 / total_gb is 0.0.
UsagePercentFloor ==
    [used \in Amounts, total \in Amounts \ {0} |->
        IF used = 0 THEN 0 ELSE FloatFloor(UsagePercent(used, total))]

\* `usage_percent >= threshold_percent` for total_gb # 0 and a whole
\* threshold_percent: a double is at least a whole number exactly when its
\* floor is.
UsageAtOrAbove(used, total, threshold) == UsagePercentFloor[used, total] >= threshold

\* `current_cost >= budget_threshold`.
CostAtOrAbove(cost, budget) == cost >= budget

\* One entry of the monitor's history.
MonEvent(ev, what, ok, secs) == [ev |-> ev, what |-> what, ok |-> ok, secs |-> secs]

\* The history keeps the first MaxMonLog events of a run.
Record(e) == IF Len(mon_log) < MaxMonLog THEN Append(mon_log, e) ELSE mon_log

\* The notification to send and where the monitor goes after it.
Note(subject, after) == Some([subject |-> subject, after |-> after])

\* The platform moves the watched run on; a terminal status stays.
RunProgress ==
    /\ mon_action = "pipeline"
    /\ mon_pc \in {"poll", "email", "slack", "sleep"}
    /\ \/ /\ run_status = "Pending"
          /\ run_status' \in RunStatuses \ {"Pending"}
       \/ /\ run_status = "Running"
          /\ run_status' \in TerminalRunStatuses
    /\ UNCHANGED <<mon_action, check_interval, slack_webhook, mon_threshold, mon_exit,
                   mon_pc, current_status, used_gb, total_gb, mon_note,
                   mon_log, mon_ret, mon_exc>>
    /\ UNCHANGED <<batchVars, wfVars, pollVars, dlVars, paramVars, itemVars, replyVars, pipeVars, pmVars>>

\* One iteration of monitor_pipeline up to its first notification, its
\* sleep, or the exception of json.loads / status_data['status'].
MonitorPipelinePoll ==
    /\ mon_action = "pipeline"
    /\ mon_pc = "poll"
    /\ \E rc \in {0, 1}, parsable \in BOOLEAN :
          IF rc # 0
          THEN /\ mon_log' = Record(MonEvent("poll", "error", FALSE, 0))
               /\ mon_note' = Note("Pipeline Monitoring Error", "return_error")
               /\ mon_pc' = "email"
               /\ UNCHANGED <<current_status, mon_exc>>
          ELSE IF ~parsable
          THEN /\ mon_log' = Record(MonEvent("poll", "unparsable", FALSE, 0))
               /\ mon_exc' = Some("JSONDecodeError")
               /\ mon_pc' = "raised"
               /\ UNCHANGED <<current_status, mon_note>>
          ELSE /\ mon_log' = Record(MonEvent("poll", run_status, TRUE, 0))
               /\ current_status' = Some(run_status)
               /\ IF MonitorTerminal(run_status)
                  THEN /\ mon_note' = Note("Pipeline " \o run_status, "return_status")
                       /\ mon_pc' = "email"
                  ELSE /\ mon_pc' = "sleep"
                       /\ UNCHANGED mon_note
               /\ UNCHANGED mon_exc
    /\ UNCHANGED <<mon_action, check_interval, slack_webhook, mon_threshold, mon_exit,
                   run_status, used_gb, total_gb, mon_ret>>
    /\ UNCHANGED <<batchVars, wfVars, pollVars, dlVars, paramVars, itemVars, replyVars, pipeVars, pmVars>>

\* What a storage response reports for 'Used:' or 'Total:': no such line,
\* or its number of gigabytes.
Readings == {Absent} \cup {Some(n) : n \in Amounts}

\* One iteration of monitor_storage up to its first notification, its sleep,
\* or the exception of the parsing and of the division. A line that is not
\* in the response leaves its local as it was.
MonitorStoragePoll ==
    /\ mon_action = "storage"
    /\ mon_pc = "poll"
    /\ \E rc \in {0, 1}, parsable \in BOOLEAN, used \in Readings, total \in Readings :
          IF rc # 0
          THEN /\ mon_log' = Record(MonEvent("poll", "error", FALSE, 0))
               /\ mon_note' = Note("Storage Monitoring Error", "continue")
               /\ mon_pc' = "email"
               /\ storage_reply' = Absent
               /\ UNCHANGED <<used_gb, total_gb, mon_exc>>
          ELSE IF ~parsable
          THEN /\ mon_log' = Record(MonEvent("poll", "unparsable", FALSE, 0))
               /\ mon_exc' = Some("ValueError")
               /\ mon_pc' = "raised"
               /\ storage_reply' = Absent
               /\ UNCHANGED <<used_gb, total_gb, mon_note>>
          ELSE LET u == IF used # Absent THEN used ELSE used_gb
                   t == IF total # Absent THEN total ELSE total_gb
               IN
               /\ storage_reply' = Some([used |-> used, total |-> total])
               /\ used_gb' = u
               /\ total_gb' = t
               /\ IF u = Absent \/ t = Absent
                  THEN /\ mon_log' = Record(MonEvent("poll", "unbound", FALSE, 0))
                       /\ mon_exc' = Some("UnboundLocalError")
                       /\ mon_pc' = "raised"
                       /\ UNCHANGED mon_note
                  ELSE IF t[1] = 0
                  THEN /\ mon_log' = Record(MonEvent("poll", "zero_total", FALSE, 0))
                       /\ mon_exc' = Some("ZeroDivisionError")
                       /\ mon_pc' = "raised"
                       /\ UNCHANGED mon_note
                  ELSE IF UsageAtOrAbove(u[1], t[1], mon_threshold)
                  THEN /\ mon_log' = Record(MonEvent("poll", "alert", TRUE, 0))
                       /\ mon_note' = Note("Storage Usage Alert", "sleep")
                       /\ mon_pc' = "email"
                       /\ UNCHANGED mon_exc
                  ELSE /\ mon_log' = Record(MonEvent("poll", "below", TRUE, 0))
                       /\ mon_pc' = "sleep"
                       /\ UNCHANGED <<mon_note, mon_exc>>
    /\ UNCHANGED <<mon_action, check_interval, slack_webhook, mon_threshold, mon_exit,
                   run_status, current_status, mon_ret>>
    /\ UNCHANGED <<batchVars, wfVars, pollVars, dlVars, paramVars, itemVars, pipeVars, pmVars>>

\* One iteration of monitor_costs up to its first notification, its sleep,
\* or the exception of json.loads / cost_data['total_cost'] / float.
MonitorCostsPoll ==
    /\ mon_action = "costs"
    /\ mon_pc = "poll"
    /\ \E rc \in {0, 1}, parsable \in BOOLEAN, cost \in Amounts :
          IF rc # 0
          THEN /\ mon_log' = Record(MonEvent("poll", "error", FALSE, 0))
               /\ mon_note' = Note("Cost Monitoring Error", "continue")
               /\ mon_pc' = "email"
               /\ UNCHANGED mon_exc
          ELSE IF ~parsable
          THEN /\ mon_log' = Record(MonEvent("poll", "unparsable", FALSE, 0))
               /\ mon_exc' = Some("JSONDecodeError")
               /\ mon_pc' = "raised"
               /\ UNCHANGED mon_note
          ELSE IF CostAtOrAbove(cost, mon_threshold)
          THEN /\ mon_log' = Record(MonEvent("poll", "alert", TRUE, 0))
               /\ mon_note' = Note("Cost Alert", "sleep")
               /\ mon_pc' = "email"
               /\ UNCHANGED mon_exc
          ELSE /\ mon_log' = Record(MonEvent("poll", "below", TRUE, 0))
               /\ mon_pc' = "sleep"
               /\ UNCHANGED <<mon_note, mon_exc>>
    /\ UNCHANGED <<mon_action, check_interval, slack_webhook, mon_threshold, mon_exit,
                   run_status, current_status, used_gb, total_gb, mon_ret>>
    /\ UNCHANGED <<batchVars, wfVars, pollVars, dlVars, paramVars, itemVars, replyVars, pipeVars, pmVars>>

\* _send_email: the SMTP connection, login and send_message are not guarded,
\* so a failure of theirs leaves the monitor as an exception.
SendEmail ==
    /\ mon_pc = "email"
    /\ \E delivered \in BOOLEAN :
          /\ mon_log' = Record(MonEvent("email", mon_note[1].subject, delivered, 0))
          /\ IF delivered
             THEN /\ mon_pc' = "slack"
                  /\ UNCHANGED mon_exc
             ELSE /\ mon_pc' = "raised"
                  /\ mon_exc' = Some("SMTPException")
    /\ UNCHANGED <<mon_action, check_interval, slack_webhook, mon_threshold, mon_exit,
                   run_status, current_status, used_gb, total_gb, mon_note,
                   mon_ret>>
    /\ UNCHANGED <<batchVars, wfVars, pollVars, dlVars, paramVars, itemVars, replyVars, pipeVars, pmVars>>

\* A requests.post whose exception is not caught.
SlackPostUnguarded(posted) == posted

\* Whether _send_slack returns normally after requests.post: its exception
\* is caught and logged, so it does whether or not the message was posted.
SlackPostReturns(posted) == TRUE

\* _send_slack, then the statement that follows the two notifications:
\* `return {'status': 'error', ...}`, `return status_data`, `continue`, or
\* the time.sleep that ends the iteration. Without a webhook nothing is
\* posted; an exception of requests.post is caught and logged.
SendSlack ==
    /\ mon_pc = "slack"
    /\ \E posted \in BOOLEAN :
          /\ IF slack_webhook
             THEN mon_log' = Record(MonEvent("slack", mon_note[1].subject, posted, 0))
             ELSE posted /\ UNCHANGED mon_log
          /\ IF slack_webhook /\ ~SlackPostReturns(posted)
             THEN /\ mon_pc' = "raised"
                  /\ mon_exc' = Some("RequestException")
                  /\ UNCHANGED <<mon_note, mon_ret>>
             ELSE /\ mon_note' = Absent
                  /\ UNCHANGED mon_exc
                  /\ IF mon_note[1].after = "return_error"
                     THEN /\ mon_ret' = Some("error")
                          /\ mon_pc' = "returned"
                     ELSE IF mon_note[1].after = "return_status"
                     THEN /\ mon_ret' = current_status
                          /\ mon_pc' = "returned"
                     ELSE IF mon_note[1].after = "continue"
                     THEN /\ mon_pc' = "poll"
                          /\ UNCHANGED mon_ret
                     ELSE /\ mon_pc' = "sleep"
                          /\ UNCHANGED mon_ret
    /\ UNCHANGED <<mon_action, check_interval, slack_webhook, mon_threshold, mon_exit,
                   run_status, current_status, used_gb, total_gb>>
    /\ UNCHANGED <<batchVars, wfVars, pollVars, dlVars, paramVars, itemVars, replyVars, pipeVars, pmVars>>

\* time.sleep(check_interval) at the end of an iteration.
MonitorSleep ==
    /\ mon_pc = "sleep"
    /\ mon_log' = Record(MonEvent("sleep", "sleep", TRUE, check_interval))
    /\ mon_pc' = "poll"
    /\ UNCHANGED <<mon_action, check_interval, slack_webhook, mon_threshold, mon_exit,
                   run_status, current_status, used_gb, total_gb, mon_note,
                   mon_ret, mon_exc>>
    /\ UNCHANGED <<batchVars, wfVars, pollVars, dlVars, paramVars, itemVars, replyVars, pipeVars, pmVars>>

\* The exit code when the monitor has returned and main has run to its end.
ExitCodeOfReturn(ret) == 0

\* The end of main: after the monitor call nothing is left to run, and the
\* value monitor_pipeline returned is not looked at; an exception that left
\* the monitor ends the interpreter with its traceback and exit code 1.
MonitorExit ==
    /\ mon_pc \in {"returned", "raised"}
    /\ mon_exit = Absent
    /\ mon_exit' = Some(IF mon_pc = "raised" THEN 1 ELSE ExitCodeOfReturn(mon_ret))
    /\ UNCHANGED <<mon_action, check_interval, slack_webhook, mon_threshold,
                   run_status, mon_pc, current_status, used_gb, total_gb,
                   mon_note, mon_log, mon_ret, mon_exc>>
    /\ UNCHANGED <<batchVars, wfVars, pollVars, dlVars, paramVars, itemVars, replyVars, pipeVars, pmVars>>

\* The state when main calls one of the three monitors.
InitMonitor ==
    /\ mon_action \in {"pipeline", "storage", "costs"}
    /\ check_interval \in CheckIntervals
    /\ slack_webhook \in BOOLEAN
    /\ mon_threshold \in IF mon_action = "storage" THEN ThresholdPercents
                         ELSE IF mon_action = "costs" THEN BudgetThresholds
                         ELSE {0}
    /\ run_status \in IF mon_action = "pipeline" THEN {"Pending", "Running"}
                      ELSE {"Pending"}
    /\ mon_pc = "poll"
    /\ current_status = Absent
    /\ used_gb = Absent
    /\ total_gb = Absent
    /\ mon_note = Absent
    /\ mon_log = <<>>
    /\ mon_ret = Absent
    /\ mon_exc = Absent
    /\ mon_exit = Absent
    /\ storage_reply = Absent

\* No monitor is run.
IdleMonitor ==
    /\ mon_action = "none"
    /\ check_interval = 0
    /\ slack_webhook = FALSE
    /\ mon_threshold = 0
    /\ run_status = "Pending"
    /\ mon_pc = "idle"
    /\ current_status = Absent
    /\ used_gb = Absent
    /\ total_gb = Absent
    /\ mon_note = Absent
    /\ mon_log = <<>>
    /\ mon_ret = Absent
    /\ mon_exc = Absent
    /\ mon_exit = Absent
    /\ storage_reply = Absent

\* The steps of the monitor itself.
MonitorStep ==
    \/ MonitorPipelinePoll
    \/ MonitorStoragePoll
    \/ MonitorCostsPoll
    \/ SendEmail
    \/ SendSlack
    \/ MonitorSleep
    \/ MonitorExit

NextMonitor ==
    \/ RunProgress
    \/ MonitorPipelinePoll
    \/ MonitorStoragePoll
    \/ MonitorCostsPoll
    \/ SendEmail
    \/ SendSlack
    \/ MonitorSleep
    \/ MonitorExit

\* --- one work item, end to end --------------------------------------------
\* process_sample runs the workflow script as a subprocess; the workflow
\* script runs the pipeline script and then the download script as
\* subprocesses.  A parent sees of its child the return code and stdout only.

\* The analysis ids the service assigns.
AssignedIds == {<<"x">>, <<"x", "x">>}

\* What `ica pipelines start` gives: its return code, whether stdout parses
\* as a JSON object, and the object's id (Absent when the key is missing).
StartResponses ==
    {[rc |-> rc, parsable |-> ok, id |-> id] :
        rc \in {0, 1}, ok \in BOOLEAN, id \in {Absent} \cup {Some(x) : x \in AssignedIds}}

\* str(v) inside an f-string: None is written as the text None.
PyStr(v) == IF v = Absent THEN <<"N", "o", "n", "e">> ELSE v[1]

\* A line of stdout without the text "Analysis ID:".
PlainLine == [marker |-> FALSE, rest |-> <<>>]

\* The exit of the pipeline script after `ica pipelines start` was run:
\* start_pipeline answers True when the return code is 0 and stdout parses.
StartPipelineOutcome(resp) ==
    IF resp.rc = 0 /\ resp.parsable THEN "ok" ELSE "nonzero"

\* What start_pipeline prints: two lines before the call, then for a parsed
\* answer "Successfully started...", "Analysis ID: {analysis_id}" and
\* "Monitor progress..."; otherwise one line with the error.
StartPipelineStdout(resp) ==
    IF resp.rc = 0 /\ resp.parsable
    THEN <<PlainLine, PlainLine, PlainLine,
           [marker |-> TRUE, rest |-> <<" ">> \o PyStr(resp.id)],
           PlainLine>>
    ELSE <<PlainLine, PlainLine, PlainLine>>

\* The data_folder values of the item.
DataFolders == {<<"a">>, <<"a", "/">>}

\* The workflow script runs while process_sample waits for it.
WorkflowRunning == \E i \in Items : ipc[i] = "pipeline"

\* The download script runs while run_download waits for it.
DownloadRunning == wf_pc = "downloading"

ItemCheckCli == WorkflowRunning /\ CheckCli

ItemUploadCall == WorkflowRunning /\ UploadCall

ItemUploadReturn == WorkflowRunning /\ UploadReturn

ItemUploadCheck == WorkflowRunning /\ UploadCheck

ItemPipelineCall == WorkflowRunning /\ PipelineCall

\* The pipeline script ends before it calls `ica pipelines start` (no CLI,
\* no project, pipeline or folder id, no params file), or cannot be run.
ItemPipelineNotStarted ==
    /\ WorkflowRunning
    /\ \E outcome \in {"nonzero", "exception"} : PipelineReturnWith(outcome, <<>>)
    /\ UNCHANGED itemVars

\* The pipeline script calls `ica pipelines start`, prints and exits;
\* run_pipeline reads its return code and stdout.
ItemPipelineReturn ==
    /\ WorkflowRunning
    /\ \E resp \in StartResponses :
          /\ start_response' = Some(resp)
          /\ PipelineReturnWith(StartPipelineOutcome(resp), StartPipelineStdout(resp))

ItemPipelineCheck == WorkflowRunning /\ PipelineCheck

ItemDownloadCall == WorkflowRunning /\ DownloadCall

ItemDlCheckCli == DownloadRunning /\ DlCheckCli

ItemDlGetProject == DownloadRunning /\ DlGetProject

ItemDlCallWait == DownloadRunning /\ DlCallWait

ItemDlWaitReturn == DownloadRunning /\ DlWaitReturn

ItemDlCheckFolder == DownloadRunning /\ DlCheckFolder

ItemDlDownload == DownloadRunning /\ DlDownload

\* Popen raises: the download script never runs.
ItemDownloadNotStarted ==
    /\ dl_pc = "check_cli"
    /\ DownloadReturnWith("exception")

\* The download script has exited: run_download reads its return code.
ItemDownloadReturn ==
    /\ dl_pc = "exited"
    /\ DownloadReturnWith(IF dl_exit = Some(0) THEN "ok" ELSE "nonzero")

\* The workflow script has exited: process_sample reads its return code.
ItemWorkflowReturn(i) ==
    /\ wf_pc = "exited"
    /\ PipelineWith(i, wf_exit[1])

\* A worker thread has called process_sample for the only record of a sheet.
\* The workflow script gets the record's data_folder and no --folder-name or
\* --polling-interval; the download script gets no --no-wait.
InitItem ==
    /\ samples \in [1..1 -> SampleRecords]
    /\ params_files = [f \in ParamsFileNames |-> <<>>]
    /\ max_concurrent = 1
    /\ bpc = "collect"
    /\ nsub = 1
    /\ ipc = <<"upload">>
    /\ future_to_sample = <<NoResult>>
    /\ upload_rc = <<NotRun>>
    /\ pipeline_rc = <<NotRun>>
    /\ invocations = <<1>>
    /\ finish_order = <<>>
    /\ results = <<>>
    /\ summary = Absent
    /\ results_json = NotWritten
    /\ summary_json = NotWritten
    /\ wf_args \in {[input_folder |-> p, folder_name |-> Absent] : p \in DataFolders}
    /\ wf_pc = "check_cli"
    /\ folder_name = Absent
    /\ analysis_id = Absent
    /\ wf_log = <<>>
    /\ wf_out = <<>>
    /\ wf_exit = Absent
    /\ dl_no_wait = FALSE
    /\ dl_pc = "check_cli"
    /\ dl_folder_id = Absent
    /\ dl_calls = <<>>
    /\ dl_out = <<>>
    /\ dl_exit = Absent
    /\ polling_interval = DefaultPollingInterval
    /\ poll_pc = "idle"
    /\ poll_log = <<>>
    /\ poll_ret = Absent
    /\ poll_resp = <<>>
    /\ start_response = Absent

NextItem ==
    \/ \E i \in Items : Upload(i)
    \/ \E i \in Items : GenerateParams(i)
    \/ ItemCheckCli
    \/ ItemUploadCall
    \/ ItemUploadReturn
    \/ ItemUploadCheck
    \/ ItemPipelineCall
    \/ ItemPipelineNotStarted
    \/ ItemPipelineReturn
    \/ ItemPipelineCheck
    \/ ItemDownloadCall
    \/ ItemDownloadNotStarted
    \/ ItemDlCheckCli
    \/ ItemDlGetProject
    \/ ItemDlCallWait
    \/ Query
    \/ Sleep
    \/ ItemDlWaitReturn
    \/ ItemDlCheckFolder
    \/ ItemDlDownload
    \/ ItemDownloadReturn
    \/ \E i \in Items : ItemWorkflowReturn(i)
    \/ Collect

\* The pipeline script is not run.
IdleItem == start_response = Absent

\* --- run_download and the pipes of its child ------------------------------
\* subprocess.Popen(cmd, stdout=PIPE, stderr=PIPE): the download script
\* writes to two pipes of bounded capacity; a write to a full pipe blocks
\* until the reader takes something out.  Output is counted in blocks, a
\* block of stdout being one line.

\* The child goes on: it writes next to stdout or to stderr, or it has
\* nothing left to write and exits, which closes both pipes.
ChildRun ==
    /\ child_pc = "run"
    /\ \/ /\ out_todo > 0
          /\ child_pc' = "write_out"
          /\ UNCHANGED child_rc
       \/ /\ err_todo > 0
          /\ child_pc' = "write_err"
          /\ UNCHANGED child_rc
       \/ /\ out_todo = 0
          /\ err_todo = 0
          /\ child_pc' = "exited"
          /\ \E rc \in {0, 1} : child_rc' = Some(rc)
    /\ UNCHANGED <<out_todo, err_todo, out_pipe, err_pipe, parent_pc, rd_ret>>
    /\ UNCHANGED <<batchVars, wfVars, pollVars, dlVars, monVars, paramVars, itemVars, replyVars, pmVars>>

\* A write to stdout: it goes through when the pipe has room.
ChildWriteStdout ==
    /\ child_pc = "write_out"
    /\ out_pipe < MaxPipe
    /\ out_pipe' = out_pipe + 1
    /\ out_todo' = out_todo - 1
    /\ child_pc' = "run"
    /\ UNCHANGED <<err_todo, err_pipe, child_rc, parent_pc, rd_ret>>
    /\ UNCHANGED <<batchVars, wfVars, pollVars, dlVars, monVars, paramVars, itemVars, replyVars, pmVars>>

\* A write to stderr: it goes through when the pipe has room.
ChildWriteStderr ==
    /\ child_pc = "write_err"
    /\ err_pipe < MaxPipe
    /\ err_pipe' = err_pipe + 1
    /\ err_todo' = err_todo - 1
    /\ child_pc' = "run"
    /\ UNCHANGED <<out_todo, out_pipe, child_rc, parent_pc, rd_ret>>
    /\ UNCHANGED <<batchVars, wfVars, pollVars, dlVars, monVars, paramVars, itemVars, replyVars, pmVars>>

\* output = process.stdout.readline() gives a line, which is printed.
ParentReadline ==
    /\ parent_pc = "readline"
    /\ out_pipe > 0
    /\ out_pipe' = out_pipe - 1
    /\ UNCHANGED <<out_todo, err_todo, err_pipe, child_pc, child_rc, parent_pc, rd_ret>>
    /\ UNCHANGED <<batchVars, wfVars, pollVars, dlVars, monVars, paramVars, itemVars, replyVars, pmVars>>

\* readline gives '' at the end of the stream and process.poll() is not
\* None: the loop breaks.
ParentBreak ==
    /\ parent_pc = "readline"
    /\ out_pipe = 0
    /\ child_pc = "exited"
    /\ parent_pc' = "return_code"
    /\ UNCHANGED <<out_todo, err_todo, out_pipe, err_pipe, child_pc, child_rc, rd_ret>>
    /\ UNCHANGED <<batchVars, wfVars, pollVars, dlVars, monVars, paramVars, itemVars, replyVars, pmVars>>

\* return_code = process.poll(): True for 0, else stderr is read to its end
\* and the answer is False.
ParentReturn ==
    /\ parent_pc = "return_code"
    /\ IF child_rc = Some(0)
       THEN /\ rd_ret' = Some(TRUE)
            /\ UNCHANGED err_pipe
       ELSE /\ rd_ret' = Some(FALSE)
            /\ err_pipe' = 0
    /\ parent_pc' = "returned"
    /\ UNCHANGED <<out_todo, err_todo, out_pipe, child_pc, child_rc>>
    /\ UNCHANGED <<batchVars, wfVars, pollVars, dlVars, monVars, paramVars, itemVars, replyVars, pmVars>>

\* Popen has started the child; the parent enters its read loop.
InitPipes ==
    /\ out_todo \in 0..MaxOutput
    /\ err_todo \in 0..MaxOutput
    /\ out_pipe = 0
    /\ err_pipe = 0
    /\ child_pc = "run"
    /\ child_rc = Absent
    /\ parent_pc = "readline"
    /\ rd_ret = Absent

NextPipes ==
    \/ ChildRun
    \/ ChildWriteStdout
    \/ ChildWriteStderr
    \/ ParentReadline
    \/ ParentBreak
    \/ ParentReturn

\* run_download is not called.
IdlePipes ==
    /\ out_todo = 0
    /\ err_todo = 0
    /\ out_pipe = 0
    /\ err_pipe = 0
    /\ child_pc = "idle"
    /\ child_rc = Absent
    /\ parent_pc = "idle"
    /\ rd_ret = Absent

\* --- ICAProjectManager -----------------------------------------------------
\* The data items of the project, in the order `ica projects data ls` lists
\* them.
DataItems == 1..MaxData

\* datetime.now() - created, in half days: created is the midnight of the
\* creation date, now is that many days later at midnight (tod = 0) or
\* later in the day (tod = 1).
AgeHalfDays(days_ago, tod) == 2 * days_ago + tod

\* `if days and (datetime.now() - created) > timedelta(days=days): continue`
Skipped(days_ago, days, tod) ==
    days # 0 /\ AgeHalfDays(days_ago, tod) > 2 * days

\* list_data(days): the items present that the filter does not skip.
ListData(days, tod) ==
    SelectSeq([k \in DataItems |-> k],
              LAMBDA k : remote[k] # Absent /\ ~Skipped(remote[k][1], days, tod))

PmEvent(op, item, age, ok) == [op |-> op, item |-> item, age |-> age, ok |-> ok]

\* cleanup_old_data(days, dry_run) is entered: old_data = self.list_data(days).
\* A failed listing raises RuntimeError.
CleanupList ==
    /\ pm_pc = "cleanup"
    /\ \E listed \in BOOLEAN, tod \in {0, 1} :
          IF listed
          THEN /\ cl_data' = ListData(pm_days, tod)
               /\ cl_i' = 1
               /\ pm_pc' = "cleanup_loop"
          ELSE /\ pm_pc' = "raised"
               /\ UNCHANGED <<cl_data, cl_i>>
    /\ UNCHANGED <<pm_action, pm_days, pm_dry_run, remote, old_data, arch_i, archive_dir, pm_log>>
    /\ UNCHANGED <<batchVars, wfVars, pollVars, dlVars, monVars, paramVars, itemVars, replyVars, pipeVars>>

\* One iteration of `for item in old_data` of cleanup_old_data: the print of
\* a dry run, or the delete command; a delete of an item that is no longer
\* there fails.
CleanupItem ==
    /\ pm_pc = "cleanup_loop"
    /\ cl_i <= Len(cl_data)
    /\ LET item == cl_data[cl_i] IN
       IF pm_dry_run
       THEN UNCHANGED <<remote, pm_log>>
       ELSE \E ok \in {remote[item] # Absent, FALSE} :
              /\ pm_log' = Append(pm_log, PmEvent("delete", item, remote[item], ok))
              /\ remote' = IF ok THEN [remote EXCEPT ![item] = Absent] ELSE remote
    /\ cl_i' = cl_i + 1
    /\ UNCHANGED <<pm_action, pm_days, pm_dry_run, pm_pc, old_data, arch_i, cl_data, archive_dir>>
    /\ UNCHANGED <<batchVars, wfVars, pollVars, dlVars, monVars, paramVars, itemVars, replyVars, pipeVars>>

\* cleanup_old_data returns: to main, or into the loop of archive_old_data.
CleanupReturn ==
    /\ pm_pc = "cleanup_loop"
    /\ cl_i > Len(cl_data)
    /\ IF pm_action = "archive"
       THEN /\ pm_pc' = "archive_loop"
            /\ arch_i' = arch_i + 1
       ELSE /\ pm_pc' = "done"
            /\ UNCHANGED arch_i
    /\ UNCHANGED <<pm_action, pm_days, pm_dry_run, remote, old_data, cl_data, cl_i, archive_dir, pm_log>>
    /\ UNCHANGED <<batchVars, wfVars, pollVars, dlVars, monVars, paramVars, itemVars, replyVars, pipeVars>>

\* archive_old_data(days, archive_dir) is entered: old_data = self.list_data(days).
ArchiveList ==
    /\ pm_pc = "archive"
    /\ \E listed \in BOOLEAN, tod \in {0, 1} :
          IF listed
          THEN /\ old_data' = ListData(pm_days, tod)
               /\ arch_i' = 1
               /\ pm_pc' = "archive_loop"
          ELSE /\ pm_pc' = "raised"
               /\ UNCHANGED <<old_data, arch_i>>
    /\ UNCHANGED <<pm_action, pm_days, pm_dry_run, remote, cl_data, cl_i, archive_dir, pm_log>>
    /\ UNCHANGED <<batchVars, wfVars, pollVars, dlVars, monVars, paramVars, itemVars, replyVars, pipeVars>>

\* One iteration of `for item in old_data` of archive_old_data: the download
\* command, and after a successful download the call
\* self.cleanup_old_data(days=days, dry_run=False).  A download of an item
\* that is no longer there fails.
ArchiveItem ==
    /\ pm_pc = "archive_loop"
    /\ arch_i <= Len(old_data)
    /\ LET item == old_data[arch_i] IN
       \E ok \in {remote[item] # Absent, FALSE} :
          /\ pm_log' = Append(pm_log, PmEvent("download", item, remote[item], ok))
          /\ IF ok
             THEN /\ archive_dir' = archive_dir \cup {item}
                  /\ pm_dry_run' = FALSE
                  /\ pm_pc' = "cleanup"
                  /\ UNCHANGED arch_i
             ELSE /\ arch_i' = arch_i + 1
                  /\ UNCHANGED <<archive_dir, pm_dry_run, pm_pc>>
    /\ UNCHANGED <<pm_action, pm_days, remote, old_data, cl_data, cl_i>>
    /\ UNCHANGED <<batchVars, wfVars, pollVars, dlVars, monVars, paramVars, itemVars, replyVars, pipeVars>>

\* `return archived`.
ArchiveReturn ==
    /\ pm_pc = "archive_loop"
    /\ arch_i > Len(old_data)
    /\ pm_pc' = "done"
    /\ UNCHANGED <<pm_action, pm_days, pm_dry_run, remote, old_data, arch_i, cl_data, cl_i,
                   archive_dir, pm_log>>
    /\ UNCHANGED <<batchVars, wfVars, pollVars, dlVars, monVars, paramVars, itemVars, replyVars, pipeVars>>

\* A call of cleanup_old_data(days, dry_run) or of archive_old_data(days,
\* archive_dir) on a project with some data items of some ages; main calls
\* them with a --days that is not 0.
InitManager ==
    /\ pm_action \in {"cleanup", "archive"}
    /\ pm_days \in 1..MaxAge
    /\ pm_dry_run \in IF pm_action = "cleanup" THEN BOOLEAN ELSE {TRUE}
    /\ remote \in [DataItems -> {Absent} \cup {Some(d) : d \in 0..MaxAge}]
    /\ pm_pc = pm_action
    /\ old_data = <<>>
    /\ arch_i = 0
    /\ cl_data = <<>>
    /\ cl_i = 0
    /\ archive_dir = {}
    /\ pm_log = <<>>

NextManager ==
    \/ CleanupList
    \/ CleanupItem
    \/ CleanupReturn
    \/ ArchiveList
    \/ ArchiveItem
    \/ ArchiveReturn

\* The project manager is not run.
IdleManager ==
    /\ pm_action = "none"
    /\ pm_days = 0
    /\ pm_dry_run = TRUE
    /\ remote = <<>>
    /\ pm_pc = "idle"
    /\ old_data = <<>>
    /\ arch_i = 0
    /\ cl_data = <<>>
    /\ cl_i = 0
    /\ archive_dir = {}
    /\ pm_log = <<>>

InitBatchRun == InitBatch /\ IdleWorkflow /\ IdlePoller /\ IdleDownload /\ IdleMonitor /\ IdleParams /\ IdleItem /\ IdlePipes /\ IdleManager

SpecBatch == InitBatchRun /\ [][NextBatch]_vars

\* One step of a worker thread of the pool: taking the oldest queued task, or
\* a step of the process_sample invocation it runs.
WorkerStep ==
    \E i \in Items : Start(i) \/ Upload(i) \/ GenerateParams(i) \/ Pipeline(i)

\* The thread of process_batch goes on submitting; an idle worker thread
\* takes a queued task, and every step of a process_sample invocation (its
\* two subprocesses, the writing of the params file) ends, so that as long as
\* a worker can take a step one is eventually taken.
BatchFairness == WF_vars(Submit) /\ WF_vars(WorkerStep)

SpecBatchFair == SpecBatch /\ BatchFairness

\* A run of the workflow script.
InitWorkflowRun == InitWorkflow /\ IdleBatch /\ IdlePoller /\ IdleDownload /\ IdleMonitor /\ IdleParams /\ IdleItem /\ IdlePipes /\ IdleManager

SpecWorkflow == InitWorkflowRun /\ [][NextWorkflow]_vars

\* A call of wait_for_analysis.
InitPollerRun == InitPoller /\ IdleBatch /\ IdleWorkflow /\ IdleDownload /\ IdleMonitor /\ IdleParams /\ IdleItem /\ IdlePipes /\ IdleManager

SpecPoller == InitPollerRun /\ [][NextPoller]_vars

\* A run of the download script.
InitDownloadRun == InitDownload /\ IdleBatch /\ IdleWorkflow /\ IdleMonitor /\ IdleParams /\ IdleItem /\ IdlePipes /\ IdleManager

SpecDownload == InitDownloadRun /\ [][NextDownload]_vars

\* A run of one monitor of ica_monitor.
InitMonitorRun == InitMonitor /\ IdleBatch /\ IdleWorkflow /\ IdlePoller /\ IdleDownload /\ IdleParams /\ IdleItem /\ IdlePipes /\ IdleManager

SpecMonitor == InitMonitorRun /\ [][NextMonitor]_vars

\* The monitor is one thread whose subprocess calls, notifications and sleeps
\* all end: whenever it can take a step it eventually takes one.
SpecMonitorFair == SpecMonitor /\ WF_vars(MonitorStep)

\* One call of _generate_params.
InitParamsRun ==
    InitParams /\ IdleBatch /\ IdleWorkflow /\ IdlePoller /\ IdleDownload /\ IdleMonitor /\ IdleItem /\ IdlePipes /\ IdleManager

SpecParams == InitParamsRun /\ [][NextParams]_vars

\* One call of a method of the project manager.
InitManagerRun ==
    InitManager /\ IdleBatch /\ IdleWorkflow /\ IdlePoller /\ IdleDownload /\ IdleMonitor
                /\ IdleParams /\ IdleItem /\ IdlePipes

SpecManager == InitManagerRun /\ [][NextManager]_vars

\* One call of run_download.
InitPipesRun ==
    InitPipes /\ IdleBatch /\ IdleWorkflow /\ IdlePoller /\ IdleDownload /\ IdleMonitor /\ IdleManager
              /\ IdleParams /\ IdleItem

SpecPipes == InitPipesRun /\ [][NextPipes]_vars

\* One process_sample invocation with its subprocesses.
InitItemRun == InitItem /\ IdleMonitor /\ IdleParams /\ IdlePipes /\ IdleManager

SpecItem == InitItemRun /\ [][NextItem]_vars

\* =================================================================
\* Properties of process_batch (checked under SpecBatch)
\* =================================================================

\* C1: once process_batch has computed its summary, completed + failed equals
\* total_samples and results holds exactly total_samples entries; the same is
\* true of what is written to summary.json and results.json.
BatchCountsAddUp ==
    /\ summary # Absent =>
          /\ summary[1].completed + summary[1].failed = summary[1].total_samples
          /\ Len(results) = summary[1].total_samples
          /\ summary[1].total_samples = Len(samples)
    /\ summary_json # NotWritten =>
          /\ summary_json[1].completed + summary_json[1].failed = summary_json[1].total_samples
          /\ results_json # NotWritten
          /\ Len(results_json[1]) = summary_json[1].total_samples

\* A finished batch with at least one completed and one failed item.
BatchCountsWitness ==
    /\ bpc = "done"
    /\ summary_json[1].completed >= 1
    /\ summary_json[1].failed >= 1

\* C2: at no moment are more than max_concurrent process_sample invocations
\* running.
ConcurrencyBound == Cardinality(Running) <= max_concurrent

\* The pool is full and a further item waits in the queue.
ConcurrencyWitness ==
    /\ Cardinality(Running) = max_concurrent
    /\ \E i \in Items : ipc[i] = "queued"

\* The status an item must be recorded with, from its own record and its own
\* upload and pipeline return codes.
OwnStatus(i) ==
    IF Fields \subseteq samples[i].keys /\ upload_rc[i] = Some(0) /\ pipeline_rc[i] = Some(0)
    THEN "completed"
    ELSE "failed"

\* Item k failed at its pipeline step and every other item succeeded.
OnlyPipelineFailure(k) ==
    /\ pipeline_rc[k] = Some(1)
    /\ \A j \in Items \ {k} : upload_rc[j] = Some(0) /\ pipeline_rc[j] = Some(0)

\* C3: a pipeline (or upload) failure of an item is turned into that item's
\* own 'failed' result; the result of an item depends only on its own record and
\* return codes; and when just item k fails at its pipeline step the results hold
\* N-1 'completed' entries and one 'failed' entry, item k's.
FailureIsolation ==
    /\ \A i \in Items :
          /\ Done(future_to_sample[i]) /\ "sample_id" \in samples[i].keys =>
                /\ future_to_sample[i].kind = "value"
                /\ future_to_sample[i].status = OwnStatus(i)
                /\ future_to_sample[i].sample_id = samples[i].sample_id
    /\ \A k \in Items :
          bpc = "done" /\ OnlyPipelineFailure(k) =>
             /\ CountStatus(results, "completed") = Len(samples) - 1
             /\ CountStatus(results, "failed") = 1
             /\ \A j \in 1..Len(results) :
                   results[j].status = "failed" => results[j].sample_id = samples[k].sample_id
             /\ CountStatus(results_json[1], "completed") = Len(samples) - 1
             /\ CountStatus(results_json[1], "failed") = 1

\* A finished batch of two or more items in which just one failed, at its
\* pipeline step, and was the first to finish.
FailureIsolationWitness ==
    /\ bpc = "done"
    /\ Len(samples) >= 2
    /\ \E k \in Items : OnlyPipelineFailure(k) /\ finish_order[1] = k

\* C4: every exception raised while an item is processed is recorded as a
\* 'failed' result, and process_batch is never left by an exception, so that
\* it ends only with results.json and summary.json written.
ItemErrorsAlwaysRecorded ==
    /\ \A i \in Items : Done(future_to_sample[i]) => future_to_sample[i].kind = "value"
    /\ bpc \notin {"unwind", "crashed"}
    /\ bpc = "done" => results_json # NotWritten /\ summary_json # NotWritten

\* C5: the summary is computed, and the files written, only when every item's
\* process_sample has finished.
BarrierBeforeSummary ==
    (summary # Absent \/ results_json # NotWritten \/ summary_json # NotWritten) =>
        /\ nsub = Len(samples)
        /\ \A i \in Items : ipc[i] = "finished"

\* A summary computed for a batch whose items had to queue for the one worker.
BarrierWitness ==
    /\ summary # Absent
    /\ Len(samples) >= 2
    /\ max_concurrent = 1

\* C6 as stated: the results are listed in the order the items completed.
ResultsInCompletionOrder ==
    bpc = "done" =>
        \A j \in 1..Len(results) : results[j] = future_to_sample[finish_order[j]]

\* C6 as amended: the results are listed in the order of the sample sheet (the
\* order of submission), whatever the order of completion.
ResultsInSheetOrder ==
    /\ \A j \in 1..Len(results) : results[j] = future_to_sample[j]
    /\ results_json # NotWritten => results_json[1] = results

\* A finished batch whose first item completed last, with a different result.
ResultsOrderWitness ==
    /\ bpc = "done"
    /\ Len(samples) >= 2
    /\ finish_order[Len(finish_order)] = 1
    /\ results[1] # results[2]

\* Number of entries of a list of records with sample_id id.
CountId(rs, id) == Cardinality({j \in 1..Len(rs) : rs[j].sample_id = id})

\* C7: no item is processed by more than one process_sample invocation, each
\* item has been processed once when process_batch ends, and when it returns
\* the sample_id values of results are those of the sample sheet, with their
\* multiplicities.
OneResultPerItem ==
    /\ \A i \in Items : invocations[i] <= 1
    /\ bpc \in {"done", "crashed"} => \A i \in Items : invocations[i] = 1
    /\ bpc = "done" =>
          /\ Len(results) = Len(samples)
          /\ \A id \in SampleIds : CountId(results, id) = CountId(samples, id)

\* A finished batch of items with distinct ids, the second finishing first.
OneResultPerItemWitness ==
    /\ bpc = "done"
    /\ Len(samples) >= 2
    /\ samples[1].sample_id # samples[2].sample_id
    /\ finish_order[1] = 2

\* process_sample is fail-fast: the pipeline subprocess runs only after a
\* successful upload.
SampleFailFast ==
    \A i \in Items : pipeline_rc[i] # NotRun => upload_rc[i] = Some(0)

\* =================================================================
\* Properties of the workflow (checked under SpecWorkflow)
\* =================================================================

\* Stage `stage` has returned to main without a usable value.
StageFailedAt(p, stage) ==
    /\ wf_log[p].ev = "ret"
    /\ wf_log[p].stage = stage
    /\ ~Truthy(wf_log[p].val)

\* C8: once the upload stage has failed, the submit and the poll-and-download
\* stages are never invoked; once the submit stage has failed, the
\* poll-and-download stage is never invoked; and main then exits with code 1
\* after naming the stage that failed.
WorkflowFailFast ==
    \A p \in 1..Len(wf_log) :
       /\ StageFailedAt(p, "upload") =>
             /\ \A q \in 1..Len(wf_log) : wf_log[q].stage = "upload"
             /\ wf_pc \in {"upload_check", "exited"}
             /\ wf_pc = "exited" =>
                   /\ wf_exit = Some(1)
                   /\ wf_out = <<"Upload failed. Stopping workflow.">>
       /\ StageFailedAt(p, "submit") =>
             /\ \A q \in 1..Len(wf_log) : wf_log[q].stage # "download"
             /\ wf_pc \in {"submit_check", "exited"}
             /\ wf_pc = "exited" =>
                   /\ wf_exit = Some(1)
                   /\ wf_out = <<"Pipeline start failed. Stopping workflow.">>

\* The workflow has exited after a successful upload and a failed submit.
WorkflowFailFastWitness ==
    /\ wf_pc = "exited"
    /\ Len(wf_log) = 4
    /\ Truthy(wf_log[2].val)
    /\ StageFailedAt(4, "submit")

\* C9: the stages are called one after another, each after the previous one
\* has returned: upload first, submit with exactly the folder name upload
\* returned, poll-and-download with exactly the analysis id submit returned.
StageValueThreading ==
    \A p \in 1..Len(wf_log) :
       /\ wf_log[p].ev = "ret" =>
             /\ p > 1
             /\ wf_log[p - 1].ev = "call"
             /\ wf_log[p - 1].stage = wf_log[p].stage
       /\ wf_log[p].ev = "call" /\ wf_log[p].stage = "upload" => p = 1
       /\ wf_log[p].ev = "call" /\ wf_log[p].stage = "submit" =>
             /\ p > 1
             /\ wf_log[p - 1] = Event("ret", "upload", wf_log[p].val)
       /\ wf_log[p].ev = "call" /\ wf_log[p].stage = "download" =>
             /\ p > 1
             /\ wf_log[p - 1] = Event("ret", "submit", wf_log[p].val)

\* All three stages ran, and the folder name that upload returned is not the
\* input folder main was given.
StageValueThreadingWitness ==
    /\ wf_pc = "exited"
    /\ Len(wf_log) = 6
    /\ wf_log[2].val # Some(wf_args.input_folder)
    /\ wf_log[3].val = wf_log[2].val
    /\ wf_log[5].val = wf_log[4].val

\* =================================================================
\* Properties of wait_for_analysis (checked under SpecPoller)
\* =================================================================

PollQueries == SelectSeq(poll_log, LAMBDA e : e.ev = "query")

PollSleeps == SelectSeq(poll_log, LAMBDA e : e.ev = "sleep")

\* The statuses seen were k times PENDING or RUNNING, then COMPLETED with an
\* output folder id.
WaitedThenCompleted ==
    /\ PollQueries # <<>>
    /\ PollQueries[Len(PollQueries)].status = Some("COMPLETED")
    /\ PollQueries[Len(PollQueries)].folder # Absent
    /\ \A j \in 1..(Len(PollQueries) - 1) :
          PollQueries[j].status \in {Some("PENDING"), Some("RUNNING")}

\* C10: for k statuses PENDING or RUNNING followed by COMPLETED with output id
\* f, wait_for_analysis makes k+1 queries and k sleeps of polling_interval, one
\* right after each non-terminal status, and returns f at the last query.
PollerSleepsThenReturns ==
    WaitedThenCompleted =>
        LET k == Len(PollQueries) - 1 IN
        /\ Len(PollSleeps) = k
        /\ Len(poll_log) = 2 * k + 1
        /\ \A j \in 1..k :
              /\ poll_log[2 * j - 1].ev = "query"
              /\ poll_log[2 * j] = SleepEvent(polling_interval)
        /\ poll_log[2 * k + 1].ev = "query"
        /\ poll_pc = "returned"
        /\ poll_ret = Some(poll_log[2 * k + 1].folder)

\* RUNNING, RUNNING, COMPLETED("f1") with a polling interval of 1 second.
PollerWitness ==
    /\ poll_pc = "returned"
    /\ polling_interval = 1
    /\ Len(poll_log) = 5
    /\ poll_log[1].status = Some("RUNNING")
    /\ poll_log[3].status = Some("RUNNING")
    /\ poll_log[5].status = Some("COMPLETED")
    /\ poll_ret = Some(Some("f1"))

\* The statuses on which wait_for_analysis gives up.
FailureStatuses == {Some("FAILED"), Some("ABORTED"), Some("TERMINATED")}

\* The positions of the status queries in the poller's log.
QueryPositions == {p \in 1..Len(poll_log) : poll_log[p].ev = "query"}

\* C11: a status query that answers FAILED, ABORTED or TERMINATED is the last
\* thing the poller does (no further query, no sleep), and the value the
\* poller returns carries that terminal status as its reason.
TerminalFailureCarriesReason ==
    \A p \in QueryPositions :
        poll_log[p].status \in FailureStatuses =>
            /\ p = Len(poll_log)
            /\ poll_pc = "returned"
            /\ poll_ret = Some(poll_log[p].status)

\* No output folder id: none at all, or an empty string.
NoFolderId(v) == v \in {Absent, Some("")}

\* A COMPLETED answer that names no output folder.
CompletedWithoutFolder(e) ==
    /\ e.ev = "query"
    /\ e.status = Some("COMPLETED")
    /\ NoFolderId(e.folder)

FailedQueryReturnsAtOnce ==
    \A q \in 1..Len(poll_resp) :
        poll_resp[q] # "ok" =>
            /\ q = Len(poll_resp)
            /\ poll_log[Len(poll_log)].ev = "query"
            /\ Cardinality(QueryPositions) = q
            /\ poll_pc = "returned"
            /\ poll_ret = Some(Absent)

\* The second query of a run failed with a non-zero return code, after a
\* RUNNING answer and a sleep.
FailedQueryWitness ==
    /\ poll_resp = <<"ok", "nonzero">>
    /\ Len(poll_log) = 3
    /\ poll_log[2].ev = "sleep"
    /\ poll_pc = "returned"

\* C14: the value the poller returns after a run that ended FAILED, ABORTED
\* or TERMINATED, and after a COMPLETED answer without an output folder id,
\* differs from the value it returns after a failed status query, so that
\* the caller can tell the outcomes apart.
ErrorOutcomeDistinguishable ==
    (/\ poll_pc = "returned"
     /\ \/ poll_log[Len(poll_log)].status \in FailureStatuses
        \/ CompletedWithoutFolder(poll_log[Len(poll_log)]))
        => poll_ret # QueryErrorReturn

\* The monitor's history is whole: nothing the monitor did is missing from it.
LogComplete == Len(mon_log) < MaxMonLog

\* The positions of the polls in the monitor's history.
MonPolls == {p \in 1..Len(mon_log) : mon_log[p].ev = "poll"}

\* The number of notifications of one channel recorded after position p.
SentAfter(channel, p) ==
    Cardinality({k \in (p + 1)..Len(mon_log) : mon_log[k].ev = channel})

\* The monitor is past the notifications that follow its latest poll.
NotificationsOver == mon_pc \notin {"email", "slack"}

\* C15: in monitor_pipeline a poll that answers Completed or Failed is the
\* last poll, and once its notifications are over the monitor has returned
\* that status after notifying each configured channel exactly once (the
\* e-mail, and Slack when a webhook is set); a poll that answers any other
\* status is followed by no notification but by a sleep of check_interval and
\* then by the next poll.
MonitorPipelineNotifiesOnTerminal ==
    (mon_action = "pipeline" /\ LogComplete) =>
        \A p \in MonPolls :
            mon_log[p].ok =>
                IF mon_log[p].what \in {"Completed", "Failed"}
                THEN /\ \A q \in MonPolls : q <= p
                     /\ NotificationsOver =>
                           /\ mon_pc = "returned"
                           /\ mon_ret = Some(mon_log[p].what)
                           /\ SentAfter("email", p) = 1
                           /\ SentAfter("slack", p) = IF slack_webhook THEN 1 ELSE 0
                ELSE /\ p = Len(mon_log) => mon_pc = "sleep"
                     /\ p < Len(mon_log) =>
                           mon_log[p + 1] = MonEvent("sleep", "sleep", TRUE, check_interval)
                     /\ p + 1 < Len(mon_log) => mon_log[p + 2].ev = "poll"

\* C16: in monitor_pipeline a status query that fails is the last poll, an
\* error notification is sent, and once the notifications are over the
\* monitor has returned the error result.
MonitorPipelineQueryErrorReturns ==
    (mon_action = "pipeline" /\ LogComplete) =>
        \A p \in MonPolls :
            mon_log[p].what = "error" =>
                /\ \A q \in MonPolls : q <= p
                /\ mon_pc # "email" => SentAfter("email", p) = 1
                /\ NotificationsOver =>
                      /\ mon_pc = "returned"
                      /\ mon_ret = Some("error")

\* C17: once the watched run is in a terminal state (Completed, Failed,
\* Aborted or Terminated), monitor_pipeline eventually terminates. (The
\* claim adds that it notifies first; the formula asks only for the end of
\* the monitor, by a return or by an exception.)
PipelineMonitorTerminates ==
    (mon_action = "pipeline" /\ run_status \in TerminalRunStatuses)
        ~> (mon_pc \in {"returned", "raised"})

\* C18: monitor_storage and monitor_costs never end on their own: whatever
\* the polls answer, the monitor neither returns nor stops with an exception.
StorageCostMonitorsNeverStop ==
    mon_action \in {"storage", "costs"} => mon_pc \notin {"returned", "raised"}

\* The latest poll of the history was a query that failed.
LatestQueryFailed ==
    /\ MonPolls # {}
    /\ \E p \in MonPolls :
          /\ \A q \in MonPolls : q <= p
          /\ mon_log[p].what = "error"

\* C19: in each of the three monitors no exception leaves the monitor in an
\* iteration whose query failed, also when a notification is not delivered:
\* once the notifications are over the pipeline monitor has returned its
\* error result and the storage and cost monitors are at their next poll.
FailedQueryRaisesNothing ==
    (LogComplete /\ LatestQueryFailed) =>
        /\ mon_pc # "raised"
        /\ NotificationsOver =>
              IF mon_action = "pipeline"
              THEN mon_pc = "returned" /\ mon_ret = Some("error")
              ELSE mon_pc \in {"poll", "sleep"}

\* C20: in monitor_storage and monitor_costs every poll but the first comes
\* directly after a sleep of check_interval, whatever the poll before it
\* answered.
PollsSeparatedBySleep ==
    mon_action \in {"storage", "costs"} =>
        \A q \in MonPolls :
            q > 1 => mon_log[q - 1] = MonEvent("sleep", "sleep", TRUE, check_interval)

\* The latest entry of the monitor's history is a storage poll that succeeded.
StoragePollSucceeded ==
    /\ mon_action = "storage"
    /\ LogComplete
    /\ mon_log # <<>>
    /\ mon_log[Len(mon_log)].ev = "poll"
    /\ mon_log[Len(mon_log)].ok

\* C21: after a monitor_storage poll that succeeded, the warning notification
\* is being sent if and only if used / total * 100 >= threshold_percent, so a
\* usage exactly equal to the threshold is notified.
StorageAlertAtThreshold ==
    StoragePollSucceeded =>
        ((/\ mon_pc = "email"
          /\ mon_note = Note("Storage Usage Alert", "sleep"))
            <=> used_gb[1] * 100 >= mon_threshold * total_gb[1])

\* The polls of the history that are followed by a notification.
NotifyingPolls == {p \in MonPolls : mon_log[p].what \in {"error", "alert", "Completed", "Failed"}}

\* The number of attempts of one channel recorded for the notification of
\* poll p: those between p and the next poll.
AttemptsFor(channel, p) ==
    Cardinality({k \in (p + 1)..Len(mon_log) :
                    /\ mon_log[k].ev = channel
                    /\ \A q \in MonPolls : ~(p < q /\ q < k)})

\* C22: for every notification of a monitor, once the monitor is past it,
\* the e-mail has been attempted exactly once and, when a webhook is set, so
\* has Slack, whether or not the other channel delivered.
EachChannelAttemptedOnce ==
    LogComplete =>
        \A p \in NotifyingPolls :
            ((\E q \in MonPolls : q > p) \/ NotificationsOver) =>
                /\ AttemptsFor("email", p) = 1
                /\ AttemptsFor("slack", p) = IF slack_webhook THEN 1 ELSE 0

\* The positions of the Slack posts that raised.
FailedSlackPosts == {k \in 1..Len(mon_log) : mon_log[k].ev = "slack" /\ ~mon_log[k].ok}

\* C23: when the post to the Slack webhook raises, the e-mail of the same
\* notification has been attempted just before and keeps its result
\* (delivered), no exception leaves the monitor, and the monitor goes on as
\* after a successful post: it returns, polls again or sleeps.
SlackFailureIsolated ==
    \A k \in FailedSlackPosts :
        /\ k > 1
        /\ mon_log[k - 1] = MonEvent("email", mon_log[k].what, TRUE, 0)
        /\ (k = Len(mon_log) /\ LogComplete) =>
              /\ mon_exc = Absent
              /\ mon_pc = IF mon_action = "pipeline" THEN "returned"
                          ELSE IF mon_log[k].what = "Storage Usage Alert" THEN "sleep"
                          ELSE IF mon_log[k].what = "Cost Alert" THEN "sleep"
                          ELSE "poll"
        /\ k < Len(mon_log) => mon_log[k + 1].ev \in {"poll", "sleep"}

\* A storage alert whose Slack post raised after the e-mail was delivered,
\* and the sleep that ends that iteration.
SlackFailureWitness ==
    /\ mon_action = "storage"
    /\ Len(mon_log) = 4
    /\ mon_log[2] = MonEvent("email", "Storage Usage Alert", TRUE, 0)
    /\ mon_log[3] = MonEvent("slack", "Storage Usage Alert", FALSE, 0)
    /\ mon_log[4].ev = "sleep"
    /\ mon_pc = "poll"

\* The keys every generated parameter set starts from.
BaseKeys == {"sample-id", "reference-tar", "output-directory"}

\* The keys of the custom parameters of the sample, when they are a mapping.
CustomKeysOf(sample) ==
    IF sample.custom_params # Absent /\ sample.custom_params[1].kind = "dict"
    THEN DOMAIN sample.custom_params[1].dict
    ELSE {}

\* C24: a call of _generate_params never ends with an exception, whatever
\* record of a sample sheet it is given, and for a pipeline outside the rule
\* table the keys of the result are exactly the base keys and the keys of
\* the item's custom parameters.
GenerateParamsTotal ==
    gp_pc \in {"returned", "raised"} =>
        /\ gp_pc = "returned"
        /\ gp_sample.pipeline = "other" =>
              DOMAIN gp_out[1] = BaseKeys \cup CustomKeysOf(gp_sample)

\* The value the base and type rules give to key k.
RuleValue(sample, k) ==
    IF k \in DOMAIN TypeParams(sample) THEN TypeParams(sample)[k]
    ELSE BaseParams(sample)[k]

\* C25: in the dict _generate_params returns, every key of the item's
\* custom_params mapping has the custom value, also when a base or type rule
\* generates that key, and every other key has the value its rule gives.
CustomParamsOverride ==
    gp_pc = "returned" =>
        /\ \A k \in CustomKeysOf(gp_sample) :
              /\ k \in DOMAIN gp_out[1]
              /\ gp_out[1][k] = gp_sample.custom_params[1].dict[k]
        /\ \A k \in DOMAIN gp_out[1] \ CustomKeysOf(gp_sample) :
              gp_out[1][k] = RuleValue(gp_sample, k)

\* A germline item whose custom_params give enable-sort, a key the type rule
\* generates too, and the result of the call.
CustomParamsOverrideWitness ==
    /\ gp_pc = "returned"
    /\ gp_sample.pipeline = "dragen-germline"
    /\ CustomKeysOf(gp_sample) = {"enable-sort"}
    /\ gp_out[1]["enable-sort"] = "False"
    /\ gp_out[1]["enable-map-align"] = "True"

\* The four flags of the germline rule.
GermlineFlags ==
    {"enable-map-align", "enable-sort", "enable-duplicate-marking", "enable-variant-caller"}

\* C26: the dict returned for a dragen-germline item always has the four
\* germline flags set to true, together with the base keys.
GermlineFlagsAlwaysTrue ==
    (gp_pc = "returned" /\ gp_sample.pipeline = "dragen-germline") =>
        /\ BaseKeys \subseteq DOMAIN gp_out[1]
        /\ \A k \in GermlineFlags : k \in DOMAIN gp_out[1] /\ gp_out[1][k] = "True"

\* C26 (amended): the dict returned for a dragen-germline item has the base
\* keys and the four germline flags, and every germline flag that is not a
\* key of the item's custom_params is set to true.
GermlineFlagsUnlessOverridden ==
    (gp_pc = "returned" /\ gp_sample.pipeline = "dragen-germline") =>
        /\ BaseKeys \cup GermlineFlags \subseteq DOMAIN gp_out[1]
        /\ \A k \in GermlineFlags \ CustomKeysOf(gp_sample) : gp_out[1][k] = "True"

\* A germline item whose custom_params replace one flag, and the result of
\* the call with the other three flags set to true.
GermlineFlagsWitness ==
    /\ gp_pc = "returned"
    /\ gp_sample.pipeline = "dragen-germline"
    /\ CustomKeysOf(gp_sample) = {"enable-sort"}
    /\ gp_out[1]["enable-sort"] = "v"
    /\ \A k \in GermlineFlags \ {"enable-sort"} : gp_out[1][k] = "True"
    /\ DOMAIN gp_out[1] = BaseKeys \cup GermlineFlags

\* C27: the monitor command with --action pipeline ends with a non-zero
\* exit code whenever the watched run did not reach a successful terminal
\* state: when the monitor saw the run Failed, when a status query failed,
\* and when the monitor stopped with an exception.
MonitorExitsNonZeroOnFailure ==
    (/\ mon_action = "pipeline"
     /\ mon_exit # Absent
     /\ \/ mon_pc = "raised"
        \/ mon_ret = Some("Failed")
        \/ mon_ret = Some("error"))
        => mon_exit # Some(0)

\* C28: when process_batch has ended, by its return or by an exception,
\* results.json and summary.json are either both written or both not
\* written, and after a return both are.
BatchFilesWrittenAsPair ==
    bpc \in {"done", "crashed", "write_failed"} =>
        /\ (results_json = NotWritten) <=> (summary_json = NotWritten)
        /\ bpc = "done" => results_json # NotWritten

\* The params files item i has written.
WrittenBy(i) ==
    {f \in ParamsFileNames : \E k \in 1..Len(params_files[f]) : params_files[f][k] = i}

\* C29: two process_sample invocations that run at the same time have
\* written no file in common, also when their items carry the same
\* sample_id.
WorkersWriteDisjointFiles ==
    \A i \in Running : \A j \in Running \ {i} : WrittenBy(i) \cap WrittenBy(j) = {}

\* The answers after which wait_for_analysis returns: no status (the query
\* failed: get_analysis_status gave None, which is also what it gives for a
\* reply that carries no status), or one of the four final statuses.
ReturningAnswers ==
    {Absent, Some("COMPLETED"), Some("FAILED"), Some("ABORTED"), Some("TERMINATED")}

\* C30: wait_for_analysis has returned only if its latest event is a status
\* query that failed or answered COMPLETED, FAILED, ABORTED or TERMINATED;
\* a query that answered anything else is followed by a sleep of
\* polling_interval and then by the next query, however many queries came
\* before it.
PollerReturnsOnlyOnFinalAnswer ==
    /\ poll_pc = "returned" =>
          /\ poll_log # <<>>
          /\ poll_log[Len(poll_log)].ev = "query"
          /\ poll_log[Len(poll_log)].status \in ReturningAnswers
    /\ \A p \in QueryPositions :
          poll_log[p].status \notin ReturningAnswers =>
              /\ p = Len(poll_log) => poll_pc = "sleep"
              /\ p < Len(poll_log) => poll_log[p + 1] = SleepEvent(polling_interval)
              /\ p + 1 < Len(poll_log) => poll_log[p + 2].ev = "query"
              /\ (p + 1 = Len(poll_log) /\ Cardinality(QueryPositions) < MaxPolls) =>
                    poll_pc = "query" /\ ENABLED Query

\* After as many QUEUED and RUNNING answers as the model allows, each
\* followed by its sleep, the poller is still waiting and has not returned.
PollerStillWaitingWitness ==
    /\ Cardinality(QueryPositions) = MaxPolls
    /\ Len(poll_log) = 2 * MaxPolls
    /\ poll_log[1].status = Some("QUEUED")
    /\ poll_log[2 * MaxPolls - 1].status = Some("RUNNING")
    /\ poll_pc = "query"
    /\ poll_ret = Absent

\* C31: when every process_sample invocation terminates, every item of the
\* sample sheet is eventually started, exactly once, and finished, whatever
\* max_concurrent is and whatever the other items do; an item waiting in the
\* queue for a worker slot does not wait forever.
EveryItemStartedAndFinished ==
    <>(\A i \in Items : ipc[i] = "finished" /\ invocations[i] = 1)

\* With one worker slot, the second item waits in the queue while the first
\* one is being processed.
ItemWaitsForSlotWitness ==
    /\ max_concurrent = 1
    /\ Len(samples) >= 2
    /\ ipc[1] = "pipeline"
    /\ ipc[2] = "queued"
    /\ invocations[2] = 0

\* =================================================================
\* Properties of one work item, end to end (checked under SpecItem)
\* =================================================================

\* The latest status query of the download script answered status st.
LatestAnswerIs(st) ==
    /\ poll_log # <<>>
    /\ poll_log[Len(poll_log)].ev = "query"
    /\ poll_log[Len(poll_log)].status = st

\* C32: an item's result is 'completed' only if the latest status query
\* answered COMPLETED with a non-empty output folder id, download_folder was
\* called for exactly that folder and the download script exited 0; and an
\* item whose poller returned after FAILED, ABORTED, TERMINATED or a failed
\* query has, once process_sample is over, the result 'failed'.
CompletedOnlyAfterDownload ==
    \A i \in Items :
        /\ future_to_sample[i].status = "completed" =>
              /\ LatestAnswerIs(Some("COMPLETED"))
              /\ poll_log[Len(poll_log)].folder \notin {Absent, Some("")}
              /\ dl_calls = <<poll_log[Len(poll_log)].folder>>
              /\ dl_exit = Some(0)
              /\ wf_exit = Some(0)
        /\ (/\ ipc[i] = "finished"
            /\ poll_pc = "returned"
            /\ \E st \in {Absent, Some("FAILED"), Some("ABORTED"), Some("TERMINATED")} :
                  LatestAnswerIs(st)) =>
              /\ future_to_sample[i].kind = "value"
              /\ future_to_sample[i].status = "failed"
              /\ dl_calls = <<>>

\* The run answered RUNNING, then COMPLETED with folder f1; the folder was
\* downloaded and the item's 'completed' result has been collected.
ItemCompletedWitness ==
    /\ Len(poll_log) = 3
    /\ poll_log[1].status = Some("RUNNING")
    /\ poll_log[3].status = Some("COMPLETED")
    /\ dl_calls = <<Some("f1")>>
    /\ Len(results) = 1
    /\ results[1].status = "completed"

\* The run answered TERMINATED and the item's 'failed' result has been
\* collected.
ItemFailedWitness ==
    /\ LatestAnswerIs(Some("TERMINATED"))
    /\ Len(results) = 1
    /\ results[1].status = "failed"

\* The analysis ids run_download was called with.
DownloadCallIds ==
    {wf_log[k].val : k \in {j \in 1..Len(wf_log) :
                              wf_log[j].ev = "call" /\ wf_log[j].stage = "download"}}

\* C33: the poll-and-download stage is started only with the analysis id
\* that the answer of `ica pipelines start` carried: whenever run_download
\* has been called, the start response had an id field and the id handed to
\* run_download is that id.
DownloadStartedWithAssignedId ==
    \A v \in DownloadCallIds :
        /\ start_response # Absent
        /\ start_response[1].id # Absent
        /\ v = start_response[1].id

\* The uploads of the item's data folder that succeeded: the one
\* process_sample runs itself and the one the workflow script runs.
UploadsDone(i) ==
    (IF upload_rc[i] = Some(0) THEN 1 ELSE 0)
    + Cardinality({k \in 1..Len(wf_log) :
                     /\ wf_log[k].ev = "ret"
                     /\ wf_log[k].stage = "upload"
                     /\ wf_log[k].val # Absent})

\* C34: an item whose result is 'completed' had its data folder uploaded to
\* the remote project exactly once.
CompletedItemUploadedOnce ==
    \A i \in Items :
        future_to_sample[i].status = "completed" => UploadsDone(i) = 1

\* C36: after a monitor_storage iteration that evaluated the usage, the
\* used_gb and total_gb it evaluated are the Used: and Total: readings of the
\* response of that iteration.
UsageFromOwnResponse ==
    (/\ mon_action = "storage"
     /\ LogComplete
     /\ mon_log # <<>>
     /\ mon_log[Len(mon_log)].ev = "poll"
     /\ mon_log[Len(mon_log)].what \in {"alert", "below"}) =>
        storage_reply = Some([used |-> used_gb, total |-> total_gb])

\* =================================================================
\* Properties of run_download's pipes (checked under SpecPipes)
\* =================================================================

\* The child is blocked in a write to the full stderr pipe.
ChildBlockedOnStderr == child_pc = "write_err" /\ err_pipe = MaxPipe

\* The parent is blocked in readline on the empty stdout pipe of a child
\* that has not exited.
ParentBlockedOnStdout == parent_pc = "readline" /\ out_pipe = 0 /\ child_pc # "exited"

\* C35: whatever the child writes to stdout and stderr, it is never blocked
\* writing to the full stderr pipe while the parent is blocked reading stdout.
NoPipeDeadlock == ~(ChildBlockedOnStderr /\ ParentBlockedOnStdout)

\* =================================================================
\* Properties of the project manager (checked under SpecManager)
\* =================================================================

\* The positions of the delete commands that removed an item.
Deletions == {k \in 1..Len(pm_log) : pm_log[k].op = "delete" /\ pm_log[k].ok}

\* C37: archive_old_data removes from the project only items that it has
\* downloaded into the archive directory before: every delete command that
\* succeeded follows a successful download of the same item.
ArchiveDeletesOnlyDownloaded ==
    pm_action = "archive" =>
        \A k \in Deletions :
            \E j \in 1..(k - 1) :
                /\ pm_log[j].op = "download"
                /\ pm_log[j].item = pm_log[k].item
                /\ pm_log[j].ok

\* C38: cleanup_old_data issues a delete command only for an item whose
\* creation date lies more than `days` days back, and none in a dry run.
CleanupDeletesOnlyOld ==
    pm_action = "cleanup" =>
        /\ \A k \in 1..Len(pm_log) :
              pm_log[k].op = "delete" => pm_log[k].age[1] > pm_days
        /\ pm_dry_run => pm_log = <<>>

=============================================================================
